---- MODULE Spec2Model ----
(***************************************************************************)
(* A model of live-md: the Hub (tracked files, watchers, clients, the      *)
(* event loop), the debouncing file Watcher and the connection adapter.    *)
(*                                                                         *)
(* Two generations of the Hub live in the repository: the multi-file Hub   *)
(* listed in docs/server.md (files, watchers, logger) and the single-file  *)
(* Hub of server.go (current, SetContent, SetError) driven by main.  Both  *)
(* are modelled; they share the event loop's unregister and broadcast      *)
(* cases, which are the same code in both.                                 *)
(***************************************************************************)
EXTENDS Integers, Sequences, FiniteSets, TLC

(***************************************************************************)
(* Bounds of the model.                                                     *)
(***************************************************************************)
\* the logical clock (time.Now, ModTime) stops advancing at MaxTime
MaxTime == 2
\* capacity of the Hub's broadcast channel (256 in the program)
BroadcastCap == 1
\* capacity of a client's send channel (256 in the program)
SendCap == 2
\* capacity of the Logger's entry buffer (100 in the program)
MaxLog == 1
\* fsnotify events a Watcher's loop has not read yet
MaxEvents == 1
\* milliseconds by which the clock of the timers advances in one step
Tick == 50

(***************************************************************************)
(* Constants of the program.                                               *)
(***************************************************************************)
\* time.AfterFunc(100*time.Millisecond, fn) in Watcher.debounce
Debounce == 100
\* time.Sleep(100 * time.Millisecond) before the watch is re-added
RemoveDelay == 100

(***************************************************************************)
(* Paths.  A path is a sequence of components; the last one is the base    *)
(* name.  "Notes" and "notes" differ in case only.                         *)
(***************************************************************************)
Paths == {<<"d", "notes">>, <<"d", "Notes">>, <<"d", "todo">>}

\* HTTP handler goroutines calling the Hub's operations
Threads == {"h1", "h2"}

\* Watcher objects: NewWatcher() for a path takes the first free one of the
\* path's slots; an object nothing refers to any more is garbage and is free
SlotIds == {1, 2}

WatcherIds == Paths \X SlotIds

\* no Watcher
NoW == <<<<>>, 0>>

\* Client objects, one per WebSocket connection
ClientIds == {"c1", "c2"}

\* strings.ToLower on one component
ToLower(s) == IF s = "Notes" THEN "notes" ELSE s

\* filepath.Base
Base(p) == p[Len(p)]

VARIABLES
    windows,    \* runtime.GOOS == "windows"
    now,        \* the logical clock behind time.Now() and ModTime()
    disk,       \* the filesystem: file key -> [st, mtime]
    files,      \* Hub.files: map path -> WatchedFile
    watchers,   \* Hub.watchers: map path -> Watcher
    mu,         \* Hub.mu: "free" or "locked"
    wst,        \* the Watcher objects
    cb,         \* the watch callback goroutine of each Watcher
    pc,         \* position of each handler goroutine
    arg,        \* the call each handler goroutine serves, or served last
    ret,        \* result of the last call each handler goroutine served
    loc,        \* locals of each handler goroutine (matched key, snapshot)
    broadcast,  \* Hub.broadcast channel
    logs,       \* Logger.entries
    crashed,    \* the process died of a runtime panic
    clients,    \* Hub.clients
    send,       \* Client.send of each client: the outbound queue
    closed,     \* how often close(client.send) has run
    hub,        \* position of the Hub.Run goroutine
    cl,         \* each connection: handler, reader and writer goroutines
    current,    \* Hub.current of the single-file Hub
    mainpc,     \* position of main, the driver of the single-file Hub
    meter       \* what an observer of the Watcher and of the calls has counted

\* the state of the connection adapter and of the event loop
\* the state of the single-file program
singleVars == <<current, mainpc>>

cliVars == <<clients, send, closed, hub, cl, singleVars>>

\* the platform and the observer: what no step of the Hub touches
world == <<windows, meter>>

vars == <<world, now, disk, files, watchers, mu, wst, cb, pc, arg, ret, loc,
          broadcast, logs, crashed, cliVars>>

(***************************************************************************)
(* Path comparison (path.go, described in the utility documentation).      *)
(***************************************************************************)
Lower(p) == [i \in DOMAIN p |-> ToLower(p[i])]

\* a normalisation that keeps the case of a path on every platform
NormalizeKeepingCase(p) == p

NormalizePathForComparison(p) == IF windows THEN Lower(p) ELSE p

PathsEqual(path1, path2) ==
    NormalizePathForComparison(path1) = NormalizePathForComparison(path2)

(***************************************************************************)
(* The filesystem and the Renderer, seen from the Hub.                     *)
(***************************************************************************)
\* the file a path resolves to: Windows filesystems ignore case
FsKey(p) == IF windows THEN Lower(p) ELSE p

FsKeys == {FsKey(p) : p \in Paths}

\* os.Stat(path): err iff the file is missing; info.ModTime() otherwise
Stat(p) == [err |-> disk[FsKey(p)].st = "missing", ModTime |-> disk[FsKey(p)].mtime]

\* Renderer.Render(path): the HTML of the content on disk, or an error.
\* The content written at time m renders to the HTML named m.
Render(p) == [err |-> disk[FsKey(p)].st # "ok", html |-> disk[FsKey(p)].mtime]

(***************************************************************************)
(* Maps with a varying key set (Go maps).                                  *)
(***************************************************************************)
MapPut(m, k, v) == [x \in DOMAIN m \cup {k} |-> IF x = k THEN v ELSE m[x]]

\* a delete that leaves the map as it is
MapKeep(m, k) == m

MapDel(m, k) == [x \in DOMAIN m \ {k} |-> m[x]]

EmptyMap == [x \in {} |-> 0]

(***************************************************************************)
(* Messages (type Message).                                                *)
(***************************************************************************)
\* the empty string as HTML; the HTML of a render is the time of the content
NoHTML == -1

\* Message of the single-file Hub
Message(filename, html, error) ==
    [Filename |-> filename, HTML |-> html, Error |-> error]

\* json.Marshal(h.current), as it travels through the channels
CurrentMsg(m) == [type |-> "current", msg |-> m]

FilesMsg(fs) == [type |-> "files", files |-> fs]

UpdateMsg(f) == [type |-> "update", file |-> f]

RemovedMsg(p) == [type |-> "removed", path |-> p]

LogMsg(e) == [type |-> "log", log |-> e]

LogsMsg(es) == [type |-> "logs", logs |-> es]

\* Logger: append to the ring of MaxLog entries, dropping the oldest
LogAppend(es, e) ==
    IF Len(es) < MaxLog THEN Append(es, e) ELSE Append(Tail(es), e)

\* LogEntry; the time and the text of an entry are not modelled
LogEntry(level, message) == [level |-> level]

(***************************************************************************)
(* Initial state: NewHub(), no call in progress, every file on disk.       *)
(***************************************************************************)
\* timer: milliseconds until the timer in w.timer fires, -1 when it is not
\* pending; timers: the timers made by time.AfterFunc that are neither stopped
\* nor fired
\* sleep: milliseconds left of the loop's time.Sleep
\* held: startWatcher has the Watcher and has not called Watch yet
\* fn: the onChange that Watch was given, the Hub's callback or main's
NoWatcher == [used |-> FALSE, held |-> FALSE, path |-> <<>>, fn |-> "none",
              fs |-> "none", loop |-> "none", evq |-> <<>>, timer |-> -1,
              timers |-> 0, sleep |-> 0, closes |-> 0]

NoArg == [op |-> "none", path |-> <<>>, active |-> FALSE]

NoLoc == [key |-> <<>>, w |-> NoW, snap |-> EmptyMap]

NoFile == [Path |-> <<>>, Name |-> "", TrackTime |-> 0, LastChange |-> 0,
           HTML |-> 0, Active |-> FALSE]

\* f: the WatchedFile a callback still points to after its removal from the map
NoCb == [pc |-> "idle", html |-> 0, detached |-> FALSE, f |-> NoFile]

\* hs: the handler (handleWebSocket); rd, wr: the reader and writer goroutines;
\* conn: the transport; peer: whether the browser is still there
NoConn == [hs |-> "new", rd |-> "none", wr |-> "none", conn |-> "none",
           peer |-> TRUE]

\* The observer: a test double around onChange and around the calls.
\* events: write events the loop has received; gap: milliseconds since the
\* last of them, counted up to the quiescence window; tight: every event but
\* the first came less than the window after the one before; calls:
\* invocations of onChange; renders, good: its calls of Render and those that
\* succeeded; updates: its broadcasts of rendered content; prev: the call
\* that was served before the one in arg; enq: the messages the Hub has put
\* on each client's queue; wire: the messages written to each client's conn;
\* seen: the kinds of other events and errors the loop has received; before:
\* those it had received when the last write event came
NoMeter == [on |-> FALSE, events |-> 0, gap |-> 0, tight |-> TRUE, calls |-> 0,
            renders |-> 0, good |-> 0, updates |-> 0, seen |-> {}, before |-> {},
            prev |-> [op |-> "none", ret |-> "none"],
            enq |-> [c \in ClientIds |-> <<>>],
            wire |-> [c \in ClientIds |-> <<>>]]

Observe(m) == meter' = IF meter.on THEN m ELSE meter

InitHub ==
    /\ windows \in BOOLEAN
    /\ disk \in {[k \in Paths |-> [st |-> IF k = <<"d", "todo">> THEN st ELSE "ok",
                                    mtime |-> 0]] : st \in {"ok", "missing", "bad"}}
    /\ files = EmptyMap
    /\ watchers = EmptyMap
    /\ mu = "free"
    /\ wst = [w \in WatcherIds |-> NoWatcher]
    /\ cb = [w \in WatcherIds |-> NoCb]
    /\ pc = [t \in Threads |-> "idle"]
    /\ arg = [t \in Threads |-> NoArg]
    /\ ret = [t \in Threads |-> "none"]
    /\ loc = [t \in Threads |-> NoLoc]
    /\ broadcast = <<>>
    /\ logs = <<>>
    /\ crashed = FALSE
    /\ clients = {}
    /\ send = [c \in ClientIds |-> <<>>]
    /\ closed = [c \in ClientIds |-> 0]
    /\ hub = [pc |-> "select", c |-> "none"]
    /\ cl = [c \in ClientIds |-> NoConn]
    /\ current = Message("", NoHTML, "")

(***************************************************************************)
(* Handler goroutines: the call protocol.                                  *)
(***************************************************************************)
envVars == <<world, now, disk>>

\* what no operation on files touches
otherVars == <<envVars, cliVars>>

\* the goroutine moves on within its call
Goto(t, l) ==
    /\ pc' = [pc EXCEPT ![t] = l]
    /\ UNCHANGED <<arg, ret>>

\* the call returns r; its locals are gone
Return(t, r) ==
    /\ pc' = [pc EXCEPT ![t] = "idle"]
    /\ ret' = [ret EXCEPT ![t] = r]
    /\ loc' = [loc EXCEPT ![t] = NoLoc]
    /\ UNCHANGED arg

Ops == {"add", "activate", "deactivate", "remove", "list"}

Entry(op) ==
    CASE op = "add" -> "add_lock"
      [] op = "activate" -> "act_lock"
      [] op = "deactivate" -> "dea_lock"
      [] op = "remove" -> "rem_lock"
      [] op = "list" -> "list"
      [] op = "close" -> "close_lock"

\* the transport layer invokes operation op with a raw path
Call(t, op, path, active) ==
    /\ ~crashed
    /\ pc[t] = "idle"
    /\ pc' = [pc EXCEPT ![t] = Entry(op)]
    /\ arg' = [arg EXCEPT ![t] = [op |-> op, path |-> path, active |-> active]]
    /\ ret' = [ret EXCEPT ![t] = "pending"]
    /\ loc' = [loc EXCEPT ![t] = NoLoc]
    /\ Observe([meter EXCEPT !.prev = [op |-> arg[t].op, ret |-> ret[t]]])
    /\ UNCHANGED <<windows, now, disk, cliVars, files, watchers, mu, wst, cb,
                   broadcast, logs, crashed>>

(***************************************************************************)
(* Hub.AddFileWithActive                                                   *)
(***************************************************************************)
\* a duplicate check that finds nothing
NeverRegistered(path) == FALSE

\* for existingPath := range h.files { if PathsEqual(existingPath, path) ... }
AlreadyRegistered(path) ==
    \E existingPath \in DOMAIN files : PathsEqual(existingPath, path)

\* h.mu.Lock() and the duplicate check
AddLock(t) ==
    /\ ~crashed
    /\ pc[t] = "add_lock"
    /\ mu = "free"
    /\ IF AlreadyRegistered(arg[t].path)
       THEN Return(t, "AlreadyTracked") /\ UNCHANGED mu
       ELSE Goto(t, "add_io") /\ mu' = "locked" /\ UNCHANGED loc
    /\ UNCHANGED <<otherVars, files, watchers, wst, cb, broadcast, logs, crashed>>

\* a file that is stored as not watched whatever the caller asked for
WatchedFileInactive(path, trackTime, lastChange, html, active) ==
    [Path |-> path, Name |-> Base(path), TrackTime |-> trackTime,
     LastChange |-> lastChange, HTML |-> html, Active |-> FALSE]

WatchedFile(path, trackTime, lastChange, html, active) ==
    [Path |-> path, Name |-> Base(path), TrackTime |-> trackTime,
     LastChange |-> lastChange, HTML |-> html, Active |-> active]

\* a registration that stores the file before it looks at the render's error
AddIOStoresFirst(t) ==
    /\ ~crashed
    /\ pc[t] = "add_io"
    /\ mu = "locked"
    /\ mu' = "free"
    /\ LET path == arg[t].path
           info == Stat(path)
           r == Render(path)
       IN  IF info.err
           THEN Return(t, "ReadError") /\ UNCHANGED files
           ELSE /\ files' = MapPut(files, path,
                       WatchedFile(path, now, info.ModTime, r.html, arg[t].active))
                /\ IF r.err
                   THEN Return(t, "RenderError")
                   ELSE /\ loc' = [loc EXCEPT ![t].key = path]
                        /\ Goto(t, IF arg[t].active THEN "sw_lock" ELSE "info")
    /\ UNCHANGED <<otherVars, watchers, wst, cb, broadcast, logs, crashed>>

\* os.Stat, Render, h.files[path] = file, h.mu.Unlock(): all under the lock
AddIO(t) ==
    /\ ~crashed
    /\ pc[t] = "add_io"
    /\ mu = "locked"
    /\ mu' = "free"
    /\ LET path == arg[t].path
           info == Stat(path)
           r == Render(path)
       IN  IF info.err
           THEN Return(t, "ReadError") /\ UNCHANGED files
           ELSE IF r.err
           THEN Return(t, "RenderError") /\ UNCHANGED files
           ELSE /\ files' = MapPut(files, path,
                       WatchedFile(path, now, info.ModTime, r.html, arg[t].active))
                /\ loc' = [loc EXCEPT ![t].key = path]
                /\ Goto(t, IF arg[t].active THEN "sw_lock" ELSE "info")
    /\ UNCHANGED <<otherVars, watchers, wst, cb, broadcast, logs, crashed>>

(***************************************************************************)
(* Hub.startWatcher                                                        *)
(***************************************************************************)
\* NewWatcher(): a fresh Watcher object
FreeSlots(path) == {i \in SlotIds : ~wst[<<path, i>>].used}

NewWatcher(path) == [NoWatcher EXCEPT !.used = TRUE, !.held = TRUE, !.path = path]

\* a Watcher is garbage once the map, startWatcher, its loop, its timer and
\* its callback are all done with it
Garbage(s, c, w, wm) ==
    /\ s.used
    /\ ~s.held
    /\ \A k \in DOMAIN wm : wm[k] # w
    /\ s.loop \in {"none", "exit"}
    /\ s.timer = -1
    /\ c.pc = "idle"

Collect(ws, cbs, wm) ==
    [w \in WatcherIds |-> IF Garbage(ws[w], cbs[w], w, wm) THEN NoWatcher ELSE ws[w]]

\* the check for an existing watcher and h.watchers[path] = watcher
StartWatcherLock(t) ==
    /\ ~crashed
    /\ pc[t] = "sw_lock"
    /\ mu = "free"
    /\ IF loc[t].key \in DOMAIN watchers
       THEN Goto(t, "info") /\ UNCHANGED <<watchers, wst, loc>>
       ELSE /\ FreeSlots(loc[t].key) # {}
            /\ LET i == CHOOSE x \in FreeSlots(loc[t].key) :
                            \A y \in FreeSlots(loc[t].key) : x <= y
                   w == <<loc[t].key, i>>
               IN  /\ watchers' = MapPut(watchers, loc[t].key, w)
                   /\ wst' = [wst EXCEPT ![w] = NewWatcher(loc[t].key)]
                   /\ loc' = [loc EXCEPT ![t].w = w]
            /\ Goto(t, "sw_watch")
    /\ UNCHANGED <<otherVars, files, mu, cb, broadcast, logs, crashed>>

\* Watcher.Watch up to the start of its loop: fsnotify.NewWatcher(),
\* watcher.Add(filepath); an error is returned, and startWatcher ignores it
Watch(s, onChange) ==
    IF Stat(s.path).err
    THEN [s EXCEPT !.held = FALSE, !.fs = "failed"]
    ELSE [s EXCEPT !.held = FALSE, !.fn = onChange, !.fs = "on", !.loop = "run"]

StartWatcherWatch(t) ==
    /\ ~crashed
    /\ pc[t] = "sw_watch"
    /\ wst' = Collect([wst EXCEPT ![loc[t].w] = Watch(@, "hub")], cb, watchers)
    /\ loc' = [loc EXCEPT ![t].w = NoW]
    /\ Goto(t, "info")
    /\ UNCHANGED <<otherVars, files, watchers, mu, cb, broadcast, logs, crashed>>

(***************************************************************************)
(* Logger.Info / Logger.Error and the broadcast helpers                    *)
(***************************************************************************)
\* the entry is stored and forwarded through Hub.broadcastLog, whose send
\* blocks while the broadcast channel is full
CanSend == Len(broadcast) < BroadcastCap

Log(level, message) ==
    /\ CanSend
    /\ logs' = LogAppend(logs, LogEntry(level, message))
    /\ broadcast' = Append(broadcast, LogMsg(LogEntry(level, message)))

InfoText(a) ==
    CASE a.op = "add" -> IF a.active THEN "Started watching" ELSE "Registered"
      [] a.op = "activate" -> "Started watching"
      [] a.op = "deactivate" -> "Stopped watching"
      [] a.op = "remove" -> "Removed"

Info(t) ==
    /\ ~crashed
    /\ pc[t] = "info"
    /\ Log("info", InfoText(arg[t]))
    /\ Goto(t, IF arg[t].op = "remove" THEN "rem_bcast" ELSE "bfl_copy")
    /\ UNCHANGED <<otherVars, files, watchers, mu, wst, cb, loc, crashed>>

\* Hub.broadcastFileList: the copy under RLock
BroadcastFileListCopy(t) ==
    /\ ~crashed
    /\ pc[t] = "bfl_copy"
    /\ mu = "free"
    /\ loc' = [loc EXCEPT ![t].snap = files]
    /\ Goto(t, "bfl_send")
    /\ UNCHANGED <<otherVars, files, watchers, mu, wst, cb, broadcast, logs,
                   crashed>>

\* Hub.broadcastFileList: h.broadcast <- data
BroadcastFileListSend(t) ==
    /\ ~crashed
    /\ pc[t] = "bfl_send"
    /\ CanSend
    /\ broadcast' = Append(broadcast, FilesMsg(loc[t].snap))
    /\ Return(t, "ok")
    /\ UNCHANGED <<otherVars, files, watchers, mu, wst, cb, logs, crashed>>

(***************************************************************************)
(* Watcher.Close                                                           *)
(***************************************************************************)
\* a Close that does nothing
CloseNothing(s) == s

\* close(w.done), then w.watcher.Close() when Watch has set w.watcher;
\* closing the fsnotify watcher discards its undelivered events, and a loop
\* waiting in its select returns
Close(s) ==
    [s EXCEPT !.closes = @ + 1,
              !.fs = IF @ = "none" THEN "none" ELSE "closed",
              !.evq = IF s.fs = "none" THEN @ ELSE <<>>,
              !.loop = IF @ = "run" THEN "exit" ELSE @]

\* close of a closed channel panics
ClosePanics(s) == s.closes > 0

(***************************************************************************)
(* Hub.ActivateFile, Hub.DeactivateFile, Hub.RemoveFile, Hub.GetFiles      *)
(***************************************************************************)
\* "find file using case-insensitive matching"
Matches(path) == {k \in DOMAIN files : PathsEqual(k, path)}

ActivateLock(t) ==
    /\ ~crashed
    /\ pc[t] = "act_lock"
    /\ mu = "free"
    /\ IF Matches(arg[t].path) = {}
       THEN Return(t, "NotFound") /\ UNCHANGED mu
       ELSE \E k \in Matches(arg[t].path) :
               IF files[k].Active
               THEN Return(t, "ok") /\ UNCHANGED mu
               ELSE /\ Goto(t, "act_io")
                    /\ mu' = "locked"
                    /\ loc' = [loc EXCEPT ![t].key = k]
    /\ UNCHANGED <<otherVars, files, watchers, wst, cb, broadcast, logs, crashed>>

\* refresh the HTML content, set Active = true, unlock
ActivateIO(t) ==
    /\ ~crashed
    /\ pc[t] = "act_io"
    /\ mu = "locked"
    /\ mu' = "free"
    /\ LET k == loc[t].key
           info == Stat(k)
           r == Render(k)
       IN  files' = [files EXCEPT
                ![k].HTML = IF r.err THEN @ ELSE r.html,
                ![k].LastChange = IF r.err \/ info.err THEN @ ELSE info.ModTime,
                ![k].Active = TRUE]
    /\ Goto(t, "sw_lock")
    /\ UNCHANGED <<otherVars, watchers, wst, cb, loc, broadcast, logs, crashed>>

\* the watcher of k is deleted from the map and left running
ForgetWatcher(k) ==
    IF k \in DOMAIN watchers
    THEN /\ wst' = Collect(wst, cb, MapDel(watchers, k))
         /\ watchers' = MapDel(watchers, k)
         /\ UNCHANGED crashed
    ELSE UNCHANGED <<watchers, wst, crashed>>

\* the watcher of k, if there is one, is closed and deleted from the map
CloseWatcher(k) ==
    IF k \in DOMAIN watchers
    THEN /\ wst' = Collect([wst EXCEPT ![watchers[k]] = Close(@)], cb,
                            MapDel(watchers, k))
         /\ crashed' = ClosePanics(wst[watchers[k]])
         /\ watchers' = MapDel(watchers, k)
    ELSE UNCHANGED <<watchers, wst, crashed>>

\* set Active = false, close and remove the watcher
DeactivateFile(t) ==
    /\ ~crashed
    /\ pc[t] = "dea_lock"
    /\ mu = "free"
    /\ IF Matches(arg[t].path) = {}
       THEN Return(t, "NotFound") /\ UNCHANGED <<files, watchers, wst, crashed>>
       ELSE \E k \in Matches(arg[t].path) :
               IF ~files[k].Active
               THEN Return(t, "ok") /\ UNCHANGED <<files, watchers, wst, crashed>>
               ELSE /\ files' = [files EXCEPT ![k].Active = FALSE]
                    /\ CloseWatcher(k)
                    /\ loc' = [loc EXCEPT ![t].key = k]
                    /\ Goto(t, "info")
    /\ UNCHANGED <<otherVars, mu, cb, broadcast, logs>>

\* a callback past its critical section keeps its pointer to the WatchedFile
\* that is deleted from the map
Detach(c, cpath, k) ==
    IF cpath = k /\ c.pc \in {"cb_info", "cb_bcast"} /\ ~c.detached
    THEN [c EXCEPT !.detached = TRUE, !.f = files[k]]
    ELSE c

\* close the watcher if it exists, delete from the files map
RemoveFile(t) ==
    /\ ~crashed
    /\ pc[t] = "rem_lock"
    /\ mu = "free"
    /\ IF Matches(arg[t].path) = {}
       THEN Return(t, "NotFound")
            /\ UNCHANGED <<files, watchers, wst, cb, crashed>>
       ELSE \E k \in Matches(arg[t].path) :
               /\ files' = MapDel(files, k)
               /\ cb' = [w \in WatcherIds |-> Detach(cb[w], wst[w].path, k)]
               /\ CloseWatcher(k)
               /\ loc' = [loc EXCEPT ![t].key = k]
               /\ Goto(t, "info")
    /\ UNCHANGED <<otherVars, mu, broadcast, logs>>

\* a removal that broadcasts the file list
RemoveBroadcastsList(t) ==
    /\ ~crashed
    /\ pc[t] = "rem_bcast"
    /\ CanSend
    /\ broadcast' = Append(broadcast, FilesMsg(files))
    /\ Return(t, "ok")
    /\ UNCHANGED <<otherVars, files, watchers, mu, wst, cb, logs, crashed>>

\* broadcast the "removed" message with the path
RemoveBroadcast(t) ==
    /\ ~crashed
    /\ pc[t] = "rem_bcast"
    /\ CanSend
    /\ broadcast' = Append(broadcast, RemovedMsg(loc[t].key))
    /\ Return(t, "ok")
    /\ UNCHANGED <<otherVars, files, watchers, mu, wst, cb, logs, crashed>>

\* a Hub.Close that only takes and releases the lock
HubCloseNothing(t) ==
    /\ ~crashed
    /\ pc[t] = "close_lock"
    /\ mu = "free"
    /\ Return(t, "ok")
    /\ UNCHANGED <<otherVars, files, watchers, mu, wst, cb, broadcast, logs,
                   crashed>>

\* Hub.Close: under the lock, w.Close() for every Watcher in h.watchers; the
\* map keeps its entries
HubClose(t) ==
    /\ ~crashed
    /\ pc[t] = "close_lock"
    /\ mu = "free"
    /\ LET ws == {watchers[k] : k \in DOMAIN watchers}
       IN  /\ wst' = Collect([w \in WatcherIds |->
                                IF w \in ws THEN Close(wst[w]) ELSE wst[w]],
                             cb, watchers)
           /\ crashed' = \E w \in ws : ClosePanics(wst[w])
    /\ Return(t, "ok")
    /\ UNCHANGED <<otherVars, files, watchers, mu, cb, broadcast, logs>>

\* a copy that leaves out the files that are not watched
GetFilesActiveOnly(t) ==
    /\ ~crashed
    /\ pc[t] = "list"
    /\ mu = "free"
    /\ loc' = [loc EXCEPT ![t].snap =
                  [k \in {j \in DOMAIN files : files[j].Active} |-> files[k]]]
    /\ Goto(t, "list_ret")
    /\ UNCHANGED <<otherVars, files, watchers, mu, wst, cb, broadcast, logs,
                   crashed>>

\* a copy of all tracked files, taken under RLock
GetFiles(t) ==
    /\ ~crashed
    /\ pc[t] = "list"
    /\ mu = "free"
    /\ loc' = [loc EXCEPT ![t].snap = files]
    /\ Goto(t, "list_ret")
    /\ UNCHANGED <<otherVars, files, watchers, mu, wst, cb, broadcast, logs,
                   crashed>>

\* the copy is what the call returns
GetFilesReturn(t) ==
    /\ ~crashed
    /\ pc[t] = "list_ret"
    /\ Return(t, "ok")
    /\ UNCHANGED <<otherVars, files, watchers, mu, wst, cb, broadcast, logs,
                   crashed>>

\* files = append(files, *f): the elements are WatchedFile values, so what the
\* caller does to the slice it was given stays in the caller's slice
CallerEdit(t) ==
    /\ ~crashed
    /\ pc[t] = "list_ret"
    /\ \E k \in DOMAIN loc[t].snap :
          loc' = [loc EXCEPT ![t].snap = MapDel(@, k)]
    /\ UNCHANGED <<otherVars, files, watchers, mu, wst, cb, pc, arg, ret,
                   broadcast, logs, crashed>>

(***************************************************************************)
(* The environment: edits of the files on disk, seen through fsnotify.     *)
(***************************************************************************)
\* the Watchers whose subscription on file k is installed
Subscribed(k) ==
    {w \in WatcherIds : /\ wst[w].fs = "on"
                        /\ wst[w].loop \in {"run", "sleep"}
                        /\ FsKey(wst[w].path) = k}

\* fsnotify delivers event op to every subscribed Watcher; a file that is
\* removed or moved away takes its subscriptions with it
Notify(k, op) ==
    wst' = [w \in WatcherIds |->
              IF w \in Subscribed(k)
              THEN [wst[w] EXCEPT !.evq = Append(@, op),
                                  !.fs = IF op \in {"remove", "rename"}
                                         THEN "lost" ELSE @]
              ELSE wst[w]]

CanNotify(k) == \A w \in Subscribed(k) : Len(wst[w].evq) < MaxEvents

\* an editor writes the file: renderable content or not
EnvWrite(k, st) ==
    /\ ~crashed
    /\ now < MaxTime
    /\ CanNotify(k)
    /\ now' = now + 1
    /\ disk' = [disk EXCEPT ![k] = [st |-> st, mtime |-> now + 1]]
    /\ IF disk[k].st = "missing" THEN UNCHANGED wst ELSE Notify(k, "write")
    /\ UNCHANGED <<cliVars, world, files, watchers, mu, cb, pc, arg, ret, loc,
                   broadcast, logs, crashed>>

\* the file is deleted (or replaced: deleted, then written again)
EnvRemove(k) ==
    /\ ~crashed
    /\ disk[k].st # "missing"
    /\ CanNotify(k)
    /\ disk' = [disk EXCEPT ![k].st = "missing"]
    /\ Notify(k, "remove")
    /\ UNCHANGED <<cliVars, world, now, files, watchers, mu, cb, pc, arg, ret, loc,
                   broadcast, logs, crashed>>

\* a change of the file's mode: an event that is neither write nor remove
EnvChmod(k) ==
    /\ ~crashed
    /\ disk[k].st # "missing"
    /\ CanNotify(k)
    /\ Subscribed(k) # {}
    /\ Notify(k, "chmod")
    /\ UNCHANGED <<cliVars, world, now, disk, files, watchers, mu, cb, pc, arg, ret,
                   loc, broadcast, logs, crashed>>

\* the file is moved to another name: an event that is neither write nor
\* remove
EnvRename(k) ==
    /\ ~crashed
    /\ disk[k].st # "missing"
    /\ CanNotify(k)
    /\ Subscribed(k) # {}
    /\ disk' = [disk EXCEPT ![k].st = "missing"]
    /\ Notify(k, "rename")
    /\ UNCHANGED <<cliVars, world, now, files, watchers, mu, cb, pc, arg, ret, loc,
                   broadcast, logs, crashed>>

\* the notification mechanism reports an error on watcher.Errors
EnvError(k) ==
    /\ ~crashed
    /\ CanNotify(k)
    /\ Subscribed(k) # {}
    /\ Notify(k, "error")
    /\ UNCHANGED <<cliVars, world, now, disk, files, watchers, mu, cb, pc, arg, ret,
                   loc, broadcast, logs, crashed>>

(***************************************************************************)
(* Watcher: the loop started by Watch, debounce, and the timer.            *)
(***************************************************************************)
\* a debounce that leaves a pending timer running
debounceKeepsTimer(s) ==
    IF s.timer >= 0 THEN s ELSE [s EXCEPT !.timer = Debounce, !.timers = @ + 1]

\* a debounce that arms a new timer and does not stop the pending one
debounceStacks(s) == [s EXCEPT !.timer = Debounce, !.timers = @ + 1]

\* Watcher.debounce: stop the pending timer, arm a new one
debounce(s) ==
    [s EXCEPT !.timer = Debounce,
              !.timers = (IF s.timer >= 0 THEN @ - 1 ELSE @) + 1]

\* the observer sees a write event reach the loop
Received ==
    [meter EXCEPT !.events = @ + 1, !.gap = 0, !.before = meter.seen,
                  !.tight = @ /\ (meter.events = 0 \/ meter.gap < Debounce)]

\* a loop that calls debounce for every event but a removal
LoopEventAnyEvent(w) ==
    /\ ~crashed
    /\ wst[w].loop = "run"
    /\ wst[w].evq # <<>>
    /\ LET op == Head(wst[w].evq)
           s == [wst[w] EXCEPT !.evq = Tail(@)]
       IN  /\ wst' = [wst EXCEPT ![w] =
              CASE op = "remove" -> [s EXCEPT !.loop = "sleep", !.sleep = RemoveDelay]
                [] op = "error" -> s
                [] OTHER -> debounce(s)]
           /\ Observe(IF op = "write" THEN Received
                      ELSE [meter EXCEPT !.seen = @ \cup {op}])
    /\ UNCHANGED <<cliVars, windows, now, disk, files, watchers, mu, cb, pc, arg, ret,
                   loc, broadcast, logs, crashed>>

\* a loop that returns when the notification mechanism reports an error
LoopEventStopsOnError(w) ==
    /\ ~crashed
    /\ wst[w].loop = "run"
    /\ wst[w].evq # <<>>
    /\ LET op == Head(wst[w].evq)
           s == [wst[w] EXCEPT !.evq = Tail(@)]
       IN  /\ wst' = [wst EXCEPT ![w] =
              CASE op = "write" -> debounce(s)
                [] op = "remove" -> [s EXCEPT !.loop = "sleep", !.sleep = RemoveDelay]
                [] op = "error" -> [s EXCEPT !.loop = "exit"]
                [] OTHER -> s]
           /\ Observe(IF op = "write" THEN Received
                      ELSE [meter EXCEPT !.seen = @ \cup {op}])
    /\ UNCHANGED <<cliVars, windows, now, disk, files, watchers, mu, cb, pc, arg, ret,
                   loc, broadcast, logs, crashed>>

\* the loop receives one event from watcher.Events, or one error from
\* watcher.Errors, which it logs with log.Printf
LoopEvent(w) ==
    /\ ~crashed
    /\ wst[w].loop = "run"
    /\ wst[w].evq # <<>>
    /\ LET op == Head(wst[w].evq)
           s == [wst[w] EXCEPT !.evq = Tail(@)]
       IN  /\ wst' = [wst EXCEPT ![w] =
              CASE op = "write" -> debounce(s)
                [] op = "remove" -> [s EXCEPT !.loop = "sleep", !.sleep = RemoveDelay]
                [] op = "error" -> s
                [] OTHER -> s]
           /\ Observe(IF op = "write" THEN Received
                      ELSE [meter EXCEPT !.seen = @ \cup {op}])
    /\ UNCHANGED <<cliVars, windows, now, disk, files, watchers, mu, cb, pc, arg, ret,
                   loc, broadcast, logs, crashed>>

\* a loop that re-installs the subscription and does not call debounce
LoopReAddOnly(w) ==
    /\ ~crashed
    /\ wst[w].loop = "sleep"
    /\ wst[w].sleep = 0
    /\ LET ok == wst[w].fs # "closed" /\ ~Stat(wst[w].path).err
       IN  wst' = [wst EXCEPT ![w].loop = "run", ![w].fs = IF ok THEN "on" ELSE @]
    /\ UNCHANGED <<cliVars, world, now, disk, files, watchers, mu, cb, pc, arg, ret,
                   loc, broadcast, logs, crashed>>

\* after the sleep: watcher.Add(filepath), whose error is dropped, and debounce
LoopReAdd(w) ==
    /\ ~crashed
    /\ wst[w].loop = "sleep"
    /\ wst[w].sleep = 0
    /\ LET ok == wst[w].fs # "closed" /\ ~Stat(wst[w].path).err
           s == [wst[w] EXCEPT !.loop = "run", !.fs = IF ok THEN "on" ELSE @]
       IN  wst' = [wst EXCEPT ![w] = debounce(s)]
    /\ UNCHANGED <<cliVars, world, now, disk, files, watchers, mu, cb, pc, arg, ret,
                   loc, broadcast, logs, crashed>>

\* the loop returns: w.done is closed, or watcher.Events is
LoopExit(w) ==
    /\ ~crashed
    /\ wst[w].loop = "run"
    /\ wst[w].closes > 0
    /\ wst' = Collect([wst EXCEPT ![w].loop = "exit"], cb, watchers)
    /\ UNCHANGED <<cliVars, world, now, disk, files, watchers, mu, cb, pc, arg, ret,
                   loc, broadcast, logs, crashed>>

\* the timer fires: fn runs in a goroutine of its own
TimerFire(w) ==
    /\ ~crashed
    /\ wst[w].timer = 0
    /\ cb[w].pc = "idle"
    /\ wst' = [wst EXCEPT ![w].timer = -1, ![w].timers = @ - 1]
    /\ cb' = [cb EXCEPT ![w].pc = IF wst[w].fn = "main" THEN "oc_render"
                                  ELSE "cb_lock"]
    /\ Observe([meter EXCEPT !.calls = @ + 1])
    /\ UNCHANGED <<cliVars, windows, now, disk, files, watchers, mu, pc, arg, ret, loc,
                   broadcast, logs, crashed>>

\* time passes for every pending timer and every sleeping loop
Elapse(ms, d) == IF ms > d THEN ms - d ELSE IF ms > 0 THEN 0 ELSE ms

Waiting == {w \in WatcherIds : wst[w].timer > 0 \/ wst[w].sleep > 0}

TimePasses ==
    /\ ~crashed
    /\ Waiting # {}
    /\ wst' = [w \in WatcherIds |->
                 [wst[w] EXCEPT !.timer = Elapse(@, Tick), !.sleep = Elapse(@, Tick)]]
    /\ Observe([meter EXCEPT !.gap = Debounce - Elapse(Debounce - @, Tick)])
    /\ UNCHANGED <<cliVars, windows, now, disk, files, watchers, mu, cb, pc, arg, ret,
                   loc, broadcast, logs, crashed>>

(***************************************************************************)
(* The callback startWatcher hands to Watcher.Watch.                       *)
(***************************************************************************)
\* the callback returns: its goroutine ends
CallbackReturn(w) ==
    /\ cb' = [cb EXCEPT ![w] = NoCb]
    /\ wst' = Collect(wst, [cb EXCEPT ![w] = NoCb], watchers)

\* the observer sees onChange call Render
Rendered(r) ==
    [meter EXCEPT !.renders = @ + 1, !.good = IF r.err THEN @ ELSE @ + 1]

\* a callback that checks that the file is tracked, but not that it is active
CallbackLockAnyFile(w) ==
    /\ ~crashed
    /\ cb[w].pc = "cb_lock"
    /\ mu = "free"
    /\ LET path == wst[w].path
           r == Render(path)
       IN  IF path \notin DOMAIN files
           THEN CallbackReturn(w) /\ UNCHANGED <<mu, meter>>
           ELSE /\ mu' = "locked"
                /\ cb' = [cb EXCEPT ![w].pc = IF r.err THEN "cb_logerr" ELSE "cb_stat",
                                    ![w].html = r.html]
                /\ Observe(Rendered(r))
                /\ UNCHANGED wst
    /\ UNCHANGED <<cliVars, windows, now, disk, files, watchers, pc, arg, ret, loc,
                   broadcast, logs, crashed>>

\* lock, look the file up, render
CallbackLock(w) ==
    /\ ~crashed
    /\ cb[w].pc = "cb_lock"
    /\ mu = "free"
    /\ LET path == wst[w].path
           r == Render(path)
       IN  IF path \notin DOMAIN files \/ ~files[path].Active
           THEN CallbackReturn(w) /\ UNCHANGED <<mu, meter>>
           ELSE /\ mu' = "locked"
                /\ cb' = [cb EXCEPT ![w].pc = IF r.err THEN "cb_logerr" ELSE "cb_stat",
                                    ![w].html = r.html]
                /\ Observe(Rendered(r))
                /\ UNCHANGED wst
    /\ UNCHANGED <<cliVars, windows, now, disk, files, watchers, pc, arg, ret, loc,
                   broadcast, logs, crashed>>

\* render failed: h.logger.Error under the lock, unlock, return
CallbackLogError(w) ==
    /\ ~crashed
    /\ cb[w].pc = "cb_logerr"
    /\ Log("error", "Error rendering")
    /\ mu' = "free"
    /\ CallbackReturn(w)
    /\ UNCHANGED <<cliVars, world, now, disk, files, watchers, pc, arg, ret, loc,
                   crashed>>

\* a store that also stamps the file with the time of the store
CallbackStoreStamps(w) ==
    /\ ~crashed
    /\ cb[w].pc = "cb_stat"
    /\ LET path == wst[w].path
           info == Stat(path)
       IN  IF info.err
           THEN /\ files' = [files EXCEPT ![path].HTML = cb[w].html]
                /\ crashed' = TRUE
                /\ UNCHANGED <<mu, cb>>
           ELSE /\ files' = [files EXCEPT ![path].HTML = cb[w].html,
                                          ![path].LastChange = info.ModTime,
                                          ![path].TrackTime = now]
                /\ mu' = "free"
                /\ cb' = [cb EXCEPT ![w].pc = "cb_info"]
                /\ UNCHANGED crashed
    /\ UNCHANGED <<cliVars, world, now, disk, watchers, wst, pc, arg, ret, loc,
                   broadcast, logs>>

\* info, _ := os.Stat(path); f.HTML = html; f.LastChange = info.ModTime()
\* a nil info panics in info.ModTime(), after f.HTML is stored
CallbackStore(w) ==
    /\ ~crashed
    /\ cb[w].pc = "cb_stat"
    /\ LET path == wst[w].path
           info == Stat(path)
       IN  IF info.err
           THEN /\ files' = [files EXCEPT ![path].HTML = cb[w].html]
                /\ crashed' = TRUE
                /\ UNCHANGED <<mu, cb>>
           ELSE /\ files' = [files EXCEPT ![path].HTML = cb[w].html,
                                          ![path].LastChange = info.ModTime]
                /\ mu' = "free"
                /\ cb' = [cb EXCEPT ![w].pc = "cb_info"]
                /\ UNCHANGED crashed
    /\ UNCHANGED <<cliVars, world, now, disk, watchers, wst, pc, arg, ret, loc,
                   broadcast, logs>>

\* h.logger.Info("File changed: ...")
CallbackInfo(w) ==
    /\ ~crashed
    /\ cb[w].pc = "cb_info"
    /\ Log("info", "File changed")
    /\ cb' = [cb EXCEPT ![w].pc = "cb_bcast"]
    /\ UNCHANGED <<cliVars, world, now, disk, files, watchers, mu, wst, pc, arg, ret,
                   loc, crashed>>

\* a change that is announced with the whole file list
broadcastListInstead(f) ==
    /\ CanSend
    /\ broadcast' = Append(broadcast, FilesMsg(files))

\* Hub.broadcastFileUpdate(f): f is marshalled now, without the lock
broadcastFileUpdate(f) ==
    /\ CanSend
    /\ broadcast' = Append(broadcast, UpdateMsg(f))

CallbackBroadcast(w) ==
    /\ ~crashed
    /\ cb[w].pc = "cb_bcast"
    /\ broadcastFileUpdate(IF cb[w].detached THEN cb[w].f ELSE files[wst[w].path])
    /\ CallbackReturn(w)
    /\ Observe([meter EXCEPT !.updates = @ + 1])
    /\ UNCHANGED <<cliVars, windows, now, disk, files, watchers, mu, pc, arg, ret,
                   loc, logs, crashed>>

(***************************************************************************)
(* Hub.Run: the event loop.                                                *)
(***************************************************************************)
fileVars == <<world, now, disk, files, watchers, mu, wst, cb, pc, arg, ret,
              loc>>

\* what the event loop and the connections leave alone, but for the observer
fileState == <<windows, now, disk, files, watchers, mu, wst, cb, pc, arg, ret,
               loc>>

\* the observer sees what this step has put on the clients' queues
Queued ==
    [meter EXCEPT !.enq = [c \in ClientIds |->
        IF Len(send'[c]) > Len(send[c])
        THEN Append(meter.enq[c], send'[c][Len(send'[c])])
        ELSE meter.enq[c]]]

\* case client := <-h.register, as listed in docs/server.md: the client
\* joins the set; logger.Info and sendFileList follow
RunRegister(c) ==
    /\ ~crashed
    /\ hub.pc = "select"
    /\ cl[c].hs = "registering"
    /\ clients' = clients \cup {c}
    /\ hub' = [pc |-> "reg_log", c |-> c]
    /\ cl' = [cl EXCEPT ![c].hs = "done", ![c].rd = "run", ![c].wr = "run"]
    /\ UNCHANGED <<fileVars, broadcast, logs, crashed, send, closed, singleVars>>

\* h.logger.Info("Browser connected")
RunRegisterLog ==
    /\ ~crashed
    /\ hub.pc = "reg_log"
    /\ Log("info", "Browser connected")
    /\ hub' = [hub EXCEPT !.pc = "reg_files"]
    /\ UNCHANGED <<fileVars, crashed, clients, send, closed, cl, singleVars>>

\* a send on a client's queue blocks while the queue is full
CanEnqueue(c) == Len(send[c]) < SendCap

\* a bootstrap that starts with the log replay
sendLogsFirst(c) ==
    /\ mu = "free"
    /\ CanEnqueue(c)
    /\ send' = [send EXCEPT ![c] = Append(@, LogsMsg(logs))]

\* Hub.sendFileList: the "files" message
sendFileList(c) ==
    /\ mu = "free"
    /\ CanEnqueue(c)
    /\ send' = [send EXCEPT ![c] = Append(@, FilesMsg(files))]

RunSendFiles ==
    /\ ~crashed
    /\ hub.pc = "reg_files"
    /\ sendFileList(hub.c)
    /\ hub' = [hub EXCEPT !.pc = "reg_logs"]
    /\ Observe(Queued)
    /\ UNCHANGED <<fileState, broadcast, logs, crashed, clients, closed, cl,
                   singleVars>>

\* a log replay that goes to every client
sendLogsToAll(c) ==
    /\ \A d \in clients : CanEnqueue(d)
    /\ send' = [d \in ClientIds |->
                  IF d \in clients THEN Append(send[d], LogsMsg(logs)) ELSE send[d]]

\* Hub.sendFileList: the "logs" message
sendLogs(c) ==
    /\ CanEnqueue(c)
    /\ send' = [send EXCEPT ![c] = Append(@, LogsMsg(logs))]

RunSendLogs ==
    /\ ~crashed
    /\ hub.pc = "reg_logs"
    /\ sendLogs(hub.c)
    /\ hub' = [pc |-> "select", c |-> "none"]
    /\ Observe(Queued)
    /\ UNCHANGED <<fileState, broadcast, logs, crashed, clients, closed, cl,
                   singleVars>>

\* case client := <-h.unregister; the reader goroutine then closes the conn
RunUnregister(c) ==
    /\ ~crashed
    /\ hub.pc = "select"
    /\ cl[c].rd = "unregistering"
    /\ IF c \in clients
       THEN /\ clients' = clients \ {c}
            /\ closed' = [closed EXCEPT ![c] = @ + 1]
            /\ crashed' = (closed[c] > 0)
            /\ hub' = [hub EXCEPT !.pc = "unreg_log"]
       ELSE UNCHANGED <<clients, closed, crashed, hub>>
    /\ cl' = [cl EXCEPT ![c].rd = "done", ![c].conn = "closed"]
    /\ UNCHANGED <<fileVars, broadcast, logs, send, singleVars>>

\* h.logger.Info("Browser disconnected")
RunUnregisterLog ==
    /\ ~crashed
    /\ hub.pc = "unreg_log"
    /\ Log("info", "Browser disconnected")
    /\ hub' = [hub EXCEPT !.pc = "select"]
    /\ UNCHANGED <<fileVars, crashed, clients, send, closed, cl, singleVars>>

\* case message := <-h.broadcast: a non-blocking send to every client;
\* a client whose queue is full is closed and deleted
Full(c) == Len(send[c]) >= SendCap

\* a broadcast that waits until every client has room
DeliverWaiting(message) ==
    /\ \A c \in clients : ~Full(c)
    /\ send' = [c \in ClientIds |->
                  IF c \in clients THEN Append(send[c], message) ELSE send[c]]
    /\ UNCHANGED <<closed, clients, crashed>>

\* a broadcast that skips a full client and keeps it
DeliverWithoutEviction(message) ==
    /\ send' = [c \in ClientIds |->
                  IF c \in clients /\ ~Full(c) THEN Append(send[c], message)
                  ELSE send[c]]
    /\ UNCHANGED <<closed, clients, crashed>>

\* a broadcast that also reaches the queues of clients outside the set
DeliverEverywhere(message) ==
    /\ send' = [c \in ClientIds |->
                  IF ~Full(c) THEN Append(send[c], message) ELSE send[c]]
    /\ closed' = [c \in ClientIds |->
                  IF c \in clients /\ Full(c) THEN closed[c] + 1 ELSE closed[c]]
    /\ clients' = {c \in clients : ~Full(c)}
    /\ crashed' = \E c \in clients : Full(c) /\ closed[c] > 0

Deliver(message) ==
    /\ send' = [c \in ClientIds |->
                  IF c \in clients /\ ~Full(c) THEN Append(send[c], message)
                  ELSE send[c]]
    /\ closed' = [c \in ClientIds |->
                  IF c \in clients /\ Full(c) THEN closed[c] + 1 ELSE closed[c]]
    /\ clients' = {c \in clients : ~Full(c)}
    /\ crashed' = \E c \in clients : Full(c) /\ closed[c] > 0

RunBroadcast ==
    /\ ~crashed
    /\ hub.pc = "select"
    /\ broadcast # <<>>
    /\ broadcast' = Tail(broadcast)
    /\ Deliver(Head(broadcast))
    /\ Observe(Queued)
    /\ UNCHANGED <<fileState, logs, hub, cl, singleVars>>

\* a handler that starts the reader and writer goroutines before the event
\* loop has taken the client from the register channel
ConnectStartsReader(c) ==
    /\ ~crashed
    /\ mainpc \in {"none", "serve"}
    /\ cl[c].hs = "new"
    /\ cl' = [cl EXCEPT ![c].hs = "registering", ![c].conn = "open",
                        ![c].rd = "run", ![c].wr = "run"]
    /\ UNCHANGED <<fileVars, broadcast, logs, crashed, clients, send, closed,
                   hub, singleVars>>

(***************************************************************************)
(* Server.handleWebSocket: the connection adapter.                         *)
(***************************************************************************)
\* upgrade, the Client with its queue, then s.hub.register <- client
Connect(c) ==
    /\ ~crashed
    /\ mainpc \in {"none", "serve"}
    /\ cl[c].hs = "new"
    /\ cl' = [cl EXCEPT ![c].hs = "registering", ![c].conn = "open"]
    /\ UNCHANGED <<fileVars, broadcast, logs, crashed, clients, send, closed,
                   hub, singleVars>>

\* the browser goes away
PeerDisconnect(c) ==
    /\ ~crashed
    /\ cl[c].conn = "open"
    /\ cl[c].peer
    /\ cl' = [cl EXCEPT ![c].peer = FALSE]
    /\ UNCHANGED <<fileVars, broadcast, logs, crashed, clients, send, closed,
                   hub, singleVars>>

\* reader goroutine: conn.ReadMessage fails; s.hub.unregister <- client is next
ReaderError(c) ==
    /\ ~crashed
    /\ cl[c].rd = "run"
    /\ ~cl[c].peer \/ cl[c].conn = "closed"
    /\ cl' = [cl EXCEPT ![c].rd = "unregistering"]
    /\ UNCHANGED <<fileVars, broadcast, logs, crashed, clients, send, closed,
                   hub, singleVars>>

\* a receive that takes the newest message of the queue
DequeueNewest(q) == [message |-> q[Len(q)], rest |-> SubSeq(q, 1, Len(q) - 1)]

\* for message := range client.send: the oldest message leaves the queue
Dequeue(q) == [message |-> Head(q), rest |-> Tail(q)]

\* writer goroutine: the next message of the queue is written to the conn;
\* a failed write ends the goroutine, which closes the conn
WriterWrite(c) ==
    /\ ~crashed
    /\ cl[c].wr = "run"
    /\ send[c] # <<>>
    /\ send' = [send EXCEPT ![c] = Dequeue(@).rest]
    /\ IF cl[c].conn = "open" /\ cl[c].peer
       THEN /\ Observe([meter EXCEPT !.wire[c] = Append(@, Dequeue(send[c]).message)])
            /\ UNCHANGED cl
       ELSE /\ cl' = [cl EXCEPT ![c].wr = "done", ![c].conn = "closed"]
            /\ UNCHANGED meter
    /\ UNCHANGED <<fileState, broadcast, logs, crashed, clients, closed, hub,
                   singleVars>>

\* a writer that returns from its loop without closing the conn
WriterEndKeepsConn(c) ==
    /\ ~crashed
    /\ cl[c].wr = "run"
    /\ send[c] = <<>>
    /\ closed[c] > 0
    /\ cl' = [cl EXCEPT ![c].wr = "done"]
    /\ UNCHANGED <<fileVars, broadcast, logs, crashed, clients, send, closed,
                   hub, singleVars>>

\* writer goroutine: the queue is closed and drained
WriterEnd(c) ==
    /\ ~crashed
    /\ cl[c].wr = "run"
    /\ send[c] = <<>>
    /\ closed[c] > 0
    /\ cl' = [cl EXCEPT ![c].wr = "done", ![c].conn = "closed"]
    /\ UNCHANGED <<fileVars, broadcast, logs, crashed, clients, send, closed,
                   hub, singleVars>>

(***************************************************************************)
(* The browser: ws.onmessage of static/client.js.                          *)
(***************************************************************************)
\* the browser's files after message data: "files" replaces the list,
\* "update" replaces the file with the same path or appends the file,
\* "removed" filters the path out; other messages leave the list alone
onmessage(view, data) ==
    CASE data.type = "files" -> data.files
      [] data.type = "update" -> MapPut(view, data.file.Path, data.file)
      [] data.type = "removed" -> MapDel(view, data.path)
      [] OTHER -> view

\* the browser's files after the messages written to its connection
RECURSIVE BrowserFiles(_)
BrowserFiles(msgs) ==
    IF msgs = <<>> THEN EmptyMap
    ELSE onmessage(BrowserFiles(SubSeq(msgs, 1, Len(msgs) - 1)), msgs[Len(msgs)])

(***************************************************************************)
(* The single-file program: Hub.Run, SetContent and SetError of server.go, *)
(* driven by main.                                                         *)
(***************************************************************************)
\* the file of a scenario with one file: flag.Arg(0) of the single-file main
OneFile == <<"d", "todo">>

\* watcher := NewWatcher() of main
MainWatcher == <<OneFile, 1>>

watchVars == <<files, watchers, pc, arg, ret, loc, logs>>

\* h.mu.Lock(); h.current = m; h.mu.Unlock()
SetCurrent(m) ==
    /\ mu = "free"
    /\ current' = m

\* data, _ := json.Marshal(h.current); h.broadcast <- data
SendCurrent ==
    /\ CanSend
    /\ broadcast' = Append(broadcast, CurrentMsg(current))

\* main: the initial render, whose failure is only logged, and the first
\* half of hub.SetContent
MainRender ==
    /\ ~crashed
    /\ mainpc = "start"
    /\ LET r == Render(OneFile)
       IN  SetCurrent(Message(Base(OneFile), IF r.err THEN NoHTML ELSE r.html, ""))
    /\ mainpc' = "set_send"
    /\ UNCHANGED <<envVars, watchVars, mu, wst, cb, broadcast, crashed, clients,
                   send, closed, hub, cl>>

\* main: the second half of hub.SetContent
MainSend ==
    /\ ~crashed
    /\ mainpc = "set_send"
    /\ SendCurrent
    /\ mainpc' = "watch"
    /\ UNCHANGED <<envVars, watchVars, mu, wst, cb, crashed, clients, send,
                   closed, hub, cl, current>>

\* main: watcher.Watch(absPath, onChange); log.Fatalf ends the process
MainWatch ==
    /\ ~crashed
    /\ mainpc = "watch"
    /\ wst' = [wst EXCEPT ![MainWatcher] = Watch(NewWatcher(OneFile), "main")]
    /\ mainpc' = IF Stat(OneFile).err THEN "fatal" ELSE "serve"
    /\ crashed' = Stat(OneFile).err
    /\ UNCHANGED <<envVars, watchVars, mu, cb, broadcast, clients, send, closed,
                   hub, cl, current>>

\* onChange of main: html, err := renderer.Render(absPath)
OnChangeRender(w) ==
    /\ ~crashed
    /\ cb[w].pc = "oc_render"
    /\ LET r == Render(wst[w].path)
       IN  /\ cb' = [cb EXCEPT ![w].pc = IF r.err THEN "se_lock" ELSE "sc_lock",
                            ![w].html = r.html]
           /\ Observe(Rendered(r))
    /\ UNCHANGED <<windows, now, disk, watchVars, mu, wst, broadcast, crashed,
                   cliVars>>

\* hub.SetError(err.Error()): h.current = Message{Error: errMsg}
SetErrorLock(w) ==
    /\ ~crashed
    /\ cb[w].pc = "se_lock"
    /\ SetCurrent(Message("", NoHTML, "render"))
    /\ cb' = [cb EXCEPT ![w].pc = "se_send"]
    /\ UNCHANGED <<envVars, watchVars, mu, wst, broadcast, crashed, clients,
                   send, closed, hub, cl, mainpc>>

\* hub.SetError: the broadcast of h.current
SetErrorSend(w) ==
    /\ ~crashed
    /\ cb[w].pc = "se_send"
    /\ SendCurrent
    /\ CallbackReturn(w)
    /\ UNCHANGED <<envVars, watchVars, mu, crashed, cliVars>>

\* hub.SetContent(filepath.Base(absPath), html)
SetContentLock(w) ==
    /\ ~crashed
    /\ cb[w].pc = "sc_lock"
    /\ SetCurrent(Message(Base(wst[w].path), cb[w].html, ""))
    /\ cb' = [cb EXCEPT ![w].pc = "sc_send"]
    /\ UNCHANGED <<envVars, watchVars, mu, wst, broadcast, crashed, clients,
                   send, closed, hub, cl, mainpc>>

\* hub.SetContent: the broadcast of h.current
SetContentSend(w) ==
    /\ ~crashed
    /\ cb[w].pc = "sc_send"
    /\ SendCurrent
    /\ CallbackReturn(w)
    /\ Observe([meter EXCEPT !.updates = @ + 1])
    /\ UNCHANGED <<windows, now, disk, watchVars, mu, crashed, cliVars>>

\* Hub.SetContent called by goroutine t: h.current is stored under the lock
SetContent(t, filename, html) ==
    /\ ~crashed
    /\ pc[t] = "idle"
    /\ SetCurrent(Message(filename, html, ""))
    /\ pc' = [pc EXCEPT ![t] = "set_marshal"]
    /\ arg' = [arg EXCEPT ![t] = [NoArg EXCEPT !.op = "setcontent"]]
    /\ ret' = [ret EXCEPT ![t] = "pending"]
    /\ UNCHANGED <<world, now, disk, files, watchers, mu, wst, cb, loc, broadcast,
                   logs, crashed, clients, send, closed, hub, cl, mainpc>>

\* Hub.SetError called by goroutine t: h.current is stored under the lock
SetError(t, errMsg) ==
    /\ ~crashed
    /\ pc[t] = "idle"
    /\ SetCurrent(Message("", NoHTML, errMsg))
    /\ pc' = [pc EXCEPT ![t] = "set_marshal"]
    /\ arg' = [arg EXCEPT ![t] = [NoArg EXCEPT !.op = "seterror"]]
    /\ ret' = [ret EXCEPT ![t] = "pending"]
    /\ UNCHANGED <<world, now, disk, files, watchers, mu, wst, cb, loc, broadcast,
                   logs, crashed, clients, send, closed, hub, cl, mainpc>>

\* data, _ := json.Marshal(h.current), after h.mu.Unlock(): the goroutine
\* reads whatever h.current holds by now; data is kept in loc[t].snap
SetMarshal(t) ==
    /\ ~crashed
    /\ pc[t] = "set_marshal"
    /\ loc' = [loc EXCEPT ![t].snap = CurrentMsg(current)]
    /\ Goto(t, "set_send")
    /\ UNCHANGED <<world, now, disk, files, watchers, mu, wst, cb, broadcast, logs,
                   crashed, cliVars>>

\* h.broadcast <- data, which blocks while the channel is full
SetBroadcast(t) ==
    /\ ~crashed
    /\ pc[t] = "set_send"
    /\ CanSend
    /\ broadcast' = Append(broadcast, loc[t].snap)
    /\ Return(t, "ok")
    /\ UNCHANGED <<world, now, disk, files, watchers, mu, wst, cb, logs, crashed,
                   cliVars>>

\* Run of server.go, case client := <-h.register: the client joins the set
\* and is sent h.current, read under RLock
RunRegister1(c) ==
    /\ ~crashed
    /\ hub.pc = "select"
    /\ cl[c].hs = "registering"
    /\ mu = "free"
    /\ CanEnqueue(c)
    /\ clients' = clients \cup {c}
    /\ send' = [send EXCEPT ![c] = Append(@, CurrentMsg(current))]
    /\ cl' = [cl EXCEPT ![c].hs = "done", ![c].rd = "run", ![c].wr = "run"]
    /\ Observe(Queued)
    /\ UNCHANGED <<fileState, broadcast, logs, crashed, closed, hub, singleVars>>

\* an unregister case without the membership test
RunUnregisterUnchecked1(c) ==
    /\ ~crashed
    /\ hub.pc = "select"
    /\ cl[c].rd = "unregistering"
    /\ clients' = clients \ {c}
    /\ closed' = [closed EXCEPT ![c] = @ + 1]
    /\ crashed' = (closed[c] > 0)
    /\ cl' = [cl EXCEPT ![c].rd = "done", ![c].conn = "closed"]
    /\ UNCHANGED <<fileVars, broadcast, logs, send, hub, singleVars>>

\* an unregister case that deletes the client and leaves its queue open
RunUnregisterKeepsOpen1(c) ==
    /\ ~crashed
    /\ hub.pc = "select"
    /\ cl[c].rd = "unregistering"
    /\ clients' = clients \ {c}
    /\ cl' = [cl EXCEPT ![c].rd = "done", ![c].conn = "closed"]
    /\ UNCHANGED <<fileVars, broadcast, logs, send, hub, singleVars, closed,
                   crashed>>

\* a reader whose deferred function stops after its send on h.unregister
RunUnregisterLeavesConn1(c) ==
    /\ ~crashed
    /\ hub.pc = "select"
    /\ cl[c].rd = "unregistering"
    /\ IF c \in clients
       THEN /\ clients' = clients \ {c}
            /\ closed' = [closed EXCEPT ![c] = @ + 1]
            /\ crashed' = (closed[c] > 0)
       ELSE UNCHANGED <<clients, closed, crashed>>
    /\ cl' = [cl EXCEPT ![c].rd = "done"]
    /\ UNCHANGED <<fileVars, broadcast, logs, send, hub, singleVars>>

\* Run of server.go, case client := <-h.unregister
RunUnregister1(c) ==
    /\ ~crashed
    /\ hub.pc = "select"
    /\ cl[c].rd = "unregistering"
    /\ IF c \in clients
       THEN /\ clients' = clients \ {c}
            /\ closed' = [closed EXCEPT ![c] = @ + 1]
            /\ crashed' = (closed[c] > 0)
       ELSE UNCHANGED <<clients, closed, crashed>>
    /\ cl' = [cl EXCEPT ![c].rd = "done", ![c].conn = "closed"]
    /\ UNCHANGED <<fileVars, broadcast, logs, send, hub, singleVars>>

(***************************************************************************)
(* Specifications.                                                         *)
(***************************************************************************)
\* the multi-file program: main only starts the Hub and the server
Init == InitHub /\ now = 0 /\ mainpc = "none" /\ meter = NoMeter

\* one handler goroutine serves the calls
Solo == {"h1"}

\* The operations on files, one call after the other, with files that nobody
\* edits.
Next ==
    \/ \E t \in Solo, op \in Ops \ {"list"}, p \in Paths, a \in BOOLEAN :
          (a => op = "add") /\ Call(t, op, p, a)
    \/ \E t \in Solo : Call(t, "list", <<>>, FALSE)
    \/ \E t \in Solo : AddLock(t)
    \/ \E t \in Solo : AddIO(t)
    \/ \E t \in Solo : StartWatcherLock(t)
    \/ \E t \in Solo : StartWatcherWatch(t)
    \/ \E t \in Solo : Info(t)
    \/ \E t \in Solo : BroadcastFileListCopy(t)
    \/ \E t \in Solo : BroadcastFileListSend(t)
    \/ \E t \in Solo : ActivateLock(t)
    \/ \E t \in Solo : ActivateIO(t)
    \/ \E t \in Solo : DeactivateFile(t)
    \/ \E t \in Solo : RemoveFile(t)
    \/ \E t \in Solo : RemoveBroadcast(t)
    \/ \E t \in Solo : GetFiles(t)
    \/ \E t \in Solo : GetFilesReturn(t)
    \/ RunBroadcast

Spec == Init /\ [][Next]_vars

\* Two handler goroutines add and remove files concurrently.
NextRace ==
    \/ \E t \in Threads, op \in {"add", "remove"}, p \in Paths :
          Call(t, op, p, FALSE)
    \/ \E t \in Threads : AddLock(t)
    \/ \E t \in Threads : AddIO(t)
    \/ \E t \in Threads : Info(t)
    \/ \E t \in Threads : BroadcastFileListCopy(t)
    \/ \E t \in Threads : BroadcastFileListSend(t)
    \/ \E t \in Threads : RemoveFile(t)
    \/ \E t \in Threads : RemoveBroadcast(t)
    \/ RunBroadcast

SpecRace == Init /\ [][NextRace]_vars

\* The event loop with browsers that connect, read or stall, and go away,
\* while one handler goroutine adds a file.
InitPlain ==
    /\ Init
    /\ ~windows
    /\ \A k \in Paths : disk[k].st = "ok"

NextHub ==
    \/ \E c \in ClientIds : Connect(c)
    \/ \E c \in ClientIds : PeerDisconnect(c)
    \/ \E c \in ClientIds : ReaderError(c)
    \/ \E c \in ClientIds : WriterWrite(c)
    \/ \E c \in ClientIds : WriterEnd(c)
    \/ \E c \in ClientIds : RunRegister(c)
    \/ RunRegisterLog
    \/ RunSendFiles
    \/ RunSendLogs
    \/ \E c \in ClientIds : RunUnregister(c)
    \/ RunUnregisterLog
    \/ RunBroadcast
    \/ \E t \in Solo : Call(t, "add", OneFile, FALSE)
    \/ \E t \in Solo : AddLock(t)
    \/ \E t \in Solo : AddIO(t)
    \/ \E t \in Solo : Info(t)
    \/ \E t \in Solo : BroadcastFileListCopy(t)
    \/ \E t \in Solo : BroadcastFileListSend(t)

SpecHub == InitPlain /\ [][NextHub]_vars

\* The single-file program: main renders and watches one file that an
\* editor keeps writing, while browsers connect, read or stall, and go away.
InitSingle ==
    /\ InitHub
    /\ now = 0
    /\ mainpc = "start"
    /\ meter = NoMeter
    /\ ~windows
    /\ disk[OneFile].st # "missing"

\* one browser
OneClient == {"c1"}

NextSingle ==
    \/ MainRender
    \/ MainSend
    \/ MainWatch
    \/ EnvWrite(OneFile, "ok")
    \/ EnvWrite(OneFile, "bad")
    \/ LoopEvent(MainWatcher)
    \/ TimePasses
    \/ TimerFire(MainWatcher)
    \/ OnChangeRender(MainWatcher)
    \/ SetErrorLock(MainWatcher)
    \/ SetErrorSend(MainWatcher)
    \/ SetContentLock(MainWatcher)
    \/ SetContentSend(MainWatcher)
    \/ \E c \in OneClient : Connect(c)
    \/ \E c \in OneClient : PeerDisconnect(c)
    \/ \E c \in OneClient : ReaderError(c)
    \/ \E c \in OneClient : WriterWrite(c)
    \/ \E c \in OneClient : WriterEnd(c)
    \/ \E c \in OneClient : RunRegister1(c)
    \/ \E c \in OneClient : RunUnregister1(c)
    \/ RunBroadcast

SpecSingle == InitSingle /\ [][NextSingle]_vars

\* The event loop of server.go with two browsers and one more write of the
\* file to come.
InitLoop ==
    /\ InitHub
    /\ now = MaxTime - 1
    /\ mainpc = "start"
    /\ meter = NoMeter
    /\ ~windows
    /\ disk[OneFile].st # "missing"

NextLoop ==
    \/ MainRender
    \/ MainSend
    \/ MainWatch
    \/ EnvWrite(OneFile, "ok")
    \/ EnvWrite(OneFile, "bad")
    \/ LoopEvent(MainWatcher)
    \/ TimePasses
    \/ TimerFire(MainWatcher)
    \/ OnChangeRender(MainWatcher)
    \/ SetErrorLock(MainWatcher)
    \/ SetErrorSend(MainWatcher)
    \/ SetContentLock(MainWatcher)
    \/ SetContentSend(MainWatcher)
    \/ \E c \in ClientIds : Connect(c)
    \/ \E c \in ClientIds : PeerDisconnect(c)
    \/ \E c \in ClientIds : ReaderError(c)
    \/ \E c \in ClientIds : WriterWrite(c)
    \/ \E c \in ClientIds : WriterEnd(c)
    \/ \E c \in ClientIds : RunRegister1(c)
    \/ \E c \in ClientIds : RunUnregister1(c)
    \/ RunBroadcast

\* the goroutine of Hub.Run is scheduled, and its select takes every case
\* that stays ready
SpecLoop ==
    /\ InitLoop
    /\ [][NextLoop]_vars
    /\ WF_vars(RunBroadcast)
    /\ \A c \in ClientIds : WF_vars(RunRegister1(c)) /\ WF_vars(RunUnregister1(c))

\* The same, with the reader and writer goroutines of every connection
\* scheduled as well.
SpecConn ==
    /\ SpecLoop
    /\ \A c \in ClientIds :
          /\ WF_vars(ReaderError(c))
          /\ WF_vars(WriterWrite(c))
          /\ WF_vars(WriterEnd(c))

\* One file is added for watching and then edited: bursts of writes, changes
\* of its mode in between, and pauses of any length.
Metering == [NoMeter EXCEPT !.on = TRUE]

InitDebounce ==
    /\ InitHub
    /\ now = 0
    /\ mainpc = "none"
    /\ meter = Metering
    /\ ~windows
    /\ disk[OneFile].st # "missing"

NextDebounce ==
    \/ \E t \in Solo : (files = EmptyMap) /\ Call(t, "add", OneFile, TRUE)
    \/ \E t \in Solo : AddLock(t)
    \/ \E t \in Solo : AddIO(t)
    \/ \E t \in Solo : StartWatcherLock(t)
    \/ \E t \in Solo : StartWatcherWatch(t)
    \/ \E t \in Solo : Info(t)
    \/ \E t \in Solo : BroadcastFileListCopy(t)
    \/ \E t \in Solo : BroadcastFileListSend(t)
    \/ EnvWrite(OneFile, "ok")
    \/ EnvWrite(OneFile, "bad")
    \/ EnvChmod(OneFile)
    \/ LoopEvent(MainWatcher)
    \/ TimePasses
    \/ TimerFire(MainWatcher)
    \/ CallbackLock(MainWatcher)
    \/ CallbackLogError(MainWatcher)
    \/ CallbackStore(MainWatcher)
    \/ CallbackInfo(MainWatcher)
    \/ CallbackBroadcast(MainWatcher)
    \/ RunBroadcast

SpecDebounce == InitDebounce /\ [][NextDebounce]_vars

\* One file is registered, then activated and deactivated in any order, one
\* call after the other, while an editor writes it.
OneFileWatchers == {w \in WatcherIds : w[1] = OneFile}

NextWatch ==
    \/ \E t \in Solo : (files = EmptyMap) /\ Call(t, "add", OneFile, FALSE)
    \/ \E t \in Solo, op \in {"activate", "deactivate"} : Call(t, op, OneFile, FALSE)
    \/ \E t \in Solo : AddLock(t)
    \/ \E t \in Solo : AddIO(t)
    \/ \E t \in Solo : ActivateLock(t)
    \/ \E t \in Solo : ActivateIO(t)
    \/ \E t \in Solo : StartWatcherLock(t)
    \/ \E t \in Solo : StartWatcherWatch(t)
    \/ \E t \in Solo : DeactivateFile(t)
    \/ \E t \in Solo : Info(t)
    \/ \E t \in Solo : BroadcastFileListCopy(t)
    \/ \E t \in Solo : BroadcastFileListSend(t)
    \/ EnvWrite(OneFile, "ok")
    \/ EnvWrite(OneFile, "bad")
    \/ \E w \in OneFileWatchers : LoopEvent(w)
    \/ TimePasses
    \/ \E w \in OneFileWatchers : TimerFire(w)
    \/ \E w \in OneFileWatchers : CallbackLock(w)
    \/ \E w \in OneFileWatchers : CallbackLogError(w)
    \/ \E w \in OneFileWatchers : CallbackStore(w)
    \/ \E w \in OneFileWatchers : CallbackInfo(w)
    \/ \E w \in OneFileWatchers : CallbackBroadcast(w)
    \/ RunBroadcast

SpecWatch == InitDebounce /\ [][NextWatch]_vars

\* The same, with what is queued for each browser and what is written to its
\* connection on record.
InitWire ==
    /\ InitHub
    /\ now = 0
    /\ mainpc = "none"
    /\ meter = Metering
    /\ ~windows
    /\ \A k \in Paths : disk[k].st = "ok"

\* one of the two browsers may go away; the file is added once
NextWire ==
    \/ \E c \in ClientIds : Connect(c)
    \/ \E c \in OneClient : PeerDisconnect(c)
    \/ \E c \in OneClient : ReaderError(c)
    \/ \E c \in ClientIds : WriterWrite(c)
    \/ \E c \in ClientIds : WriterEnd(c)
    \/ \E c \in ClientIds : RunRegister(c)
    \/ RunRegisterLog
    \/ RunSendFiles
    \/ RunSendLogs
    \/ \E c \in OneClient : RunUnregister(c)
    \/ RunUnregisterLog
    \/ RunBroadcast
    \/ \E t \in Solo : (files = EmptyMap) /\ Call(t, "add", OneFile, FALSE)
    \/ \E t \in Solo : AddLock(t)
    \/ \E t \in Solo : AddIO(t)
    \/ \E t \in Solo : Info(t)
    \/ \E t \in Solo : BroadcastFileListCopy(t)
    \/ \E t \in Solo : BroadcastFileListSend(t)

SpecWire == InitWire /\ [][NextWire]_vars

\* The same, with an editor that also deletes the file, replaces it, and
\* changes its mode.
NextEdit ==
    \/ \E t \in Solo, a \in BOOLEAN : (files = EmptyMap) /\ Call(t, "add", OneFile, a)
    \/ \E t \in Solo, op \in {"activate", "deactivate"} : Call(t, op, OneFile, FALSE)
    \/ \E t \in Solo : AddLock(t)
    \/ \E t \in Solo : AddIO(t)
    \/ \E t \in Solo : ActivateLock(t)
    \/ \E t \in Solo : ActivateIO(t)
    \/ \E t \in Solo : StartWatcherLock(t)
    \/ \E t \in Solo : StartWatcherWatch(t)
    \/ \E t \in Solo : DeactivateFile(t)
    \/ \E t \in Solo : Info(t)
    \/ \E t \in Solo : BroadcastFileListCopy(t)
    \/ \E t \in Solo : BroadcastFileListSend(t)
    \/ EnvWrite(OneFile, "ok")
    \/ EnvWrite(OneFile, "bad")
    \/ EnvRemove(OneFile)
    \/ EnvChmod(OneFile)
    \/ \E w \in OneFileWatchers : LoopEvent(w)
    \/ \E w \in OneFileWatchers : LoopReAdd(w)
    \/ \E w \in OneFileWatchers : LoopExit(w)
    \/ TimePasses
    \/ \E w \in OneFileWatchers : TimerFire(w)
    \/ \E w \in OneFileWatchers : CallbackLock(w)
    \/ \E w \in OneFileWatchers : CallbackLogError(w)
    \/ \E w \in OneFileWatchers : CallbackStore(w)
    \/ \E w \in OneFileWatchers : CallbackInfo(w)
    \/ \E w \in OneFileWatchers : CallbackBroadcast(w)
    \/ RunBroadcast

InitEdit ==
    /\ Init
    /\ ~windows
    /\ disk[OneFile].st # "missing"

SpecEdit == InitEdit /\ [][NextEdit]_vars

\* Two handler goroutines add, activate, deactivate and remove one file
\* concurrently; nobody edits it.
NextShare ==
    \/ \E t \in Threads, a \in BOOLEAN : Call(t, "add", OneFile, a)
    \/ \E t \in Threads, op \in {"activate", "deactivate", "remove"} :
          Call(t, op, OneFile, FALSE)
    \/ \E t \in Threads : AddLock(t)
    \/ \E t \in Threads : AddIO(t)
    \/ \E t \in Threads : ActivateLock(t)
    \/ \E t \in Threads : ActivateIO(t)
    \/ \E t \in Threads : StartWatcherLock(t)
    \/ \E t \in Threads : StartWatcherWatch(t)
    \/ \E t \in Threads : DeactivateFile(t)
    \/ \E t \in Threads : RemoveFile(t)
    \/ \E t \in Threads : RemoveBroadcast(t)
    \/ \E t \in Threads : Info(t)
    \/ \E t \in Threads : BroadcastFileListCopy(t)
    \/ \E t \in Threads : BroadcastFileListSend(t)
    \/ \E w \in OneFileWatchers : LoopExit(w)
    \/ RunBroadcast

SpecShare == InitPlain /\ [][NextShare]_vars

\* One file is added for watching, deactivated, removed and added again,
\* one call after the other, while an editor writes it.
NextGone ==
    \/ \E t \in Solo : (files = EmptyMap) /\ Call(t, "add", OneFile, TRUE)
    \/ \E t \in Solo, op \in {"deactivate", "remove"} : Call(t, op, OneFile, FALSE)
    \/ \E t \in Solo : AddLock(t)
    \/ \E t \in Solo : AddIO(t)
    \/ \E t \in Solo : StartWatcherLock(t)
    \/ \E t \in Solo : StartWatcherWatch(t)
    \/ \E t \in Solo : DeactivateFile(t)
    \/ \E t \in Solo : RemoveFile(t)
    \/ \E t \in Solo : RemoveBroadcast(t)
    \/ \E t \in Solo : Info(t)
    \/ \E t \in Solo : BroadcastFileListCopy(t)
    \/ \E t \in Solo : BroadcastFileListSend(t)
    \/ EnvWrite(OneFile, "ok")
    \/ EnvWrite(OneFile, "bad")
    \/ \E w \in OneFileWatchers : LoopEvent(w)
    \/ TimePasses
    \/ \E w \in OneFileWatchers : TimerFire(w)
    \/ \E w \in OneFileWatchers : CallbackLock(w)
    \/ \E w \in OneFileWatchers : CallbackLogError(w)
    \/ \E w \in OneFileWatchers : CallbackStore(w)
    \/ \E w \in OneFileWatchers : CallbackInfo(w)
    \/ \E w \in OneFileWatchers : CallbackBroadcast(w)
    \/ RunBroadcast

SpecGone == InitDebounce /\ [][NextGone]_vars

\* One handler goroutine adds and removes files while another lists them and
\* works on the list it was given.
Lister == "h2"

NextList ==
    \/ \E t \in Threads \ {Lister}, op \in {"add", "remove"}, p \in Paths :
          Call(t, op, p, FALSE)
    \/ Call(Lister, "list", <<>>, FALSE)
    \/ \E t \in Threads : AddLock(t)
    \/ \E t \in Threads : AddIO(t)
    \/ \E t \in Threads : Info(t)
    \/ \E t \in Threads : BroadcastFileListCopy(t)
    \/ \E t \in Threads : BroadcastFileListSend(t)
    \/ \E t \in Threads : RemoveFile(t)
    \/ \E t \in Threads : RemoveBroadcast(t)
    \/ GetFiles(Lister)
    \/ CallerEdit(Lister)
    \/ GetFilesReturn(Lister)
    \/ RunBroadcast

SpecList == InitPlain /\ [][NextList]_vars

\* Shutdown: one file is added for watching and deactivated, and the
\* shutdown endpoint and the signal handler call Hub.Close, one call after
\* the other, while an editor deletes the file and writes it anew.
NextDown ==
    \/ \E t \in Solo : (files = EmptyMap) /\ Call(t, "add", OneFile, TRUE)
    \/ \E t \in Solo : Call(t, "deactivate", OneFile, FALSE)
    \/ \E t \in Solo : Call(t, "close", <<>>, FALSE)
    \/ \E t \in Solo : AddLock(t)
    \/ \E t \in Solo : AddIO(t)
    \/ \E t \in Solo : StartWatcherLock(t)
    \/ \E t \in Solo : StartWatcherWatch(t)
    \/ \E t \in Solo : DeactivateFile(t)
    \/ \E t \in Solo : Info(t)
    \/ \E t \in Solo : BroadcastFileListCopy(t)
    \/ \E t \in Solo : BroadcastFileListSend(t)
    \/ \E t \in Solo : HubClose(t)
    \/ (disk[OneFile].st = "missing") /\ EnvWrite(OneFile, "ok")
    \/ EnvRemove(OneFile)
    \/ \E w \in OneFileWatchers : LoopEvent(w)
    \/ \E w \in OneFileWatchers : LoopReAdd(w)
    \/ \E w \in OneFileWatchers : LoopExit(w)
    \/ TimePasses
    \/ \E w \in OneFileWatchers : TimerFire(w)
    \/ \E w \in OneFileWatchers : CallbackLock(w)
    \/ \E w \in OneFileWatchers : CallbackLogError(w)
    \/ \E w \in OneFileWatchers : CallbackStore(w)
    \/ \E w \in OneFileWatchers : CallbackInfo(w)
    \/ \E w \in OneFileWatchers : CallbackBroadcast(w)
    \/ RunBroadcast

SpecDown == InitEdit /\ [][NextDown]_vars

\* One browser stays connected and reads everything, while two handler
\* goroutines add one file each.
OtherFile == <<"d", "notes">>

NextSync ==
    \/ \E c \in OneClient : Connect(c)
    \/ \E c \in OneClient : WriterWrite(c)
    \/ \E c \in OneClient : RunRegister(c)
    \/ RunRegisterLog
    \/ RunSendFiles
    \/ RunSendLogs
    \/ RunBroadcast
    \/ (OneFile \notin DOMAIN files) /\ Call("h1", "add", OneFile, FALSE)
    \/ (OtherFile \notin DOMAIN files) /\ Call("h2", "add", OtherFile, FALSE)
    \/ \E t \in Threads : AddLock(t)
    \/ \E t \in Threads : AddIO(t)
    \/ \E t \in Threads : Info(t)
    \/ \E t \in Threads : BroadcastFileListCopy(t)
    \/ \E t \in Threads : BroadcastFileListSend(t)

SpecSync == InitWire /\ [][NextSync]_vars

\* One watched file is replaced by its editor, once: deleted, written anew
\* sooner or later, and written again.
NextReplace ==
    \/ \E t \in Solo : (files = EmptyMap) /\ Call(t, "add", OneFile, TRUE)
    \/ \E t \in Solo : AddLock(t)
    \/ \E t \in Solo : AddIO(t)
    \/ \E t \in Solo : StartWatcherLock(t)
    \/ \E t \in Solo : StartWatcherWatch(t)
    \/ \E t \in Solo : Info(t)
    \/ \E t \in Solo : BroadcastFileListCopy(t)
    \/ \E t \in Solo : BroadcastFileListSend(t)
    \/ (now = 0) /\ EnvRemove(OneFile)
    \/ EnvWrite(OneFile, "ok")
    \/ LoopEvent(MainWatcher)
    \/ LoopReAdd(MainWatcher)
    \/ TimePasses
    \/ TimerFire(MainWatcher)
    \/ CallbackLock(MainWatcher)
    \/ CallbackLogError(MainWatcher)
    \/ CallbackStore(MainWatcher)
    \/ CallbackInfo(MainWatcher)
    \/ CallbackBroadcast(MainWatcher)
    \/ RunBroadcast

SpecReplace == InitDebounce /\ [][NextReplace]_vars

\* One file is added for watching and written, while its mode changes and
\* the notification mechanism reports errors, until the loop has received one
\* of each; in the end the file may be moved away.
NextNoise ==
    \/ \E t \in Solo : (files = EmptyMap) /\ Call(t, "add", OneFile, TRUE)
    \/ \E t \in Solo : AddLock(t)
    \/ \E t \in Solo : AddIO(t)
    \/ \E t \in Solo : StartWatcherLock(t)
    \/ \E t \in Solo : StartWatcherWatch(t)
    \/ \E t \in Solo : Info(t)
    \/ \E t \in Solo : BroadcastFileListCopy(t)
    \/ \E t \in Solo : BroadcastFileListSend(t)
    \/ EnvWrite(OneFile, "ok")
    \/ ("chmod" \notin meter.seen) /\ EnvChmod(OneFile)
    \/ ("error" \notin meter.seen) /\ EnvError(OneFile)
    \/ EnvRename(OneFile)
    \/ LoopEvent(MainWatcher)
    \/ TimePasses
    \/ TimerFire(MainWatcher)
    \/ CallbackLock(MainWatcher)
    \/ CallbackLogError(MainWatcher)
    \/ CallbackStore(MainWatcher)
    \/ CallbackInfo(MainWatcher)
    \/ CallbackBroadcast(MainWatcher)
    \/ RunBroadcast

SpecNoise == InitDebounce /\ [][NextNoise]_vars

\* The single-file Hub with two goroutines that each call SetContent or
\* SetError once, while browsers connect and read.
InitSet ==
    /\ InitHub
    /\ now = 0
    /\ mainpc = "none"
    /\ meter = Metering
    /\ ~windows
    /\ \A k \in Paths : disk[k].st = "ok"

NextSet ==
    \/ \E t \in Threads, html \in 1..MaxTime :
          (ret[t] = "none") /\ SetContent(t, Base(OneFile), html)
    \/ \E t \in Threads : (ret[t] = "none") /\ SetError(t, "render")
    \/ \E t \in Threads : SetMarshal(t)
    \/ \E t \in Threads : SetBroadcast(t)
    \/ \E c \in ClientIds : Connect(c)
    \/ \E c \in ClientIds : RunRegister1(c)
    \/ \E c \in ClientIds : WriterWrite(c)
    \/ RunBroadcast

SpecSet == InitSet /\ [][NextSet]_vars

(***************************************************************************)
(* Properties of AddFileWithActive's duplicate check.                      *)
(***************************************************************************)
\* equal but for the case of letters
SameButCase(a, b) == Lower(a) = Lower(b)

\* the same path, or on Windows a case variant of it
SameOnPlatform(a, b) == a = b \/ (windows /\ SameButCase(a, b))

\* the step in which AddFileWithActive's duplicate check decides
AddDecides(t) == pc[t] = "add_lock" /\ pc'[t] # "add_lock"

\* the call of handler t fails with AlreadyTracked and leaves the files alone
Rejected(t) == pc'[t] = "idle" /\ ret'[t] = "AlreadyTracked" /\ files' = files

\* C1 as stated: while p is tracked, addFile(q) for any case variant q of p
\* (p itself included) fails with AlreadyTracked and leaves the number of
\* tracked files unchanged.
C1_CaseVariantRejected ==
    [][\A t \in Threads :
          (AddDecides(t) /\ \E k \in DOMAIN files : SameButCase(k, arg[t].path))
              => Rejected(t)]_vars

\* C1, amended: while p is tracked, addFile(q) fails with AlreadyTracked and
\* leaves the tracked files unchanged when q is p itself or, on Windows, a
\* case variant of p.
C1_DuplicateRejected ==
    [][\A t \in Threads :
          (AddDecides(t) /\ \E k \in DOMAIN files : SameOnPlatform(k, arg[t].path))
              => Rejected(t)]_vars

\* on Windows a case variant of a tracked path has been rejected
C1_Witness ==
    \E t \in Threads :
        /\ windows
        /\ pc[t] = "idle"
        /\ arg[t].op = "add"
        /\ ret[t] = "AlreadyTracked"
        /\ \E k \in DOMAIN files : k # arg[t].path /\ SameButCase(k, arg[t].path)

(***************************************************************************)
(* Properties of RemoveFile.                                               *)
(***************************************************************************)
\* no tracked file has path p
Untracked(p) == \A k \in DOMAIN files : ~SameOnPlatform(k, p)

\* C10: a successful removeFile(p) leaves p untracked; p becomes tracked
\* again only by an addFile of p; while p is untracked, listFiles() does not
\* contain p and activate(p) and deactivate(p) fail with NotFound.
C10_RemovedStaysGone ==
    [][\A t \in Threads :
          /\ (pc[t] = "rem_lock" /\ pc'[t] = "info") => Untracked(arg[t].path)'
          /\ \A p \in Paths :
                (Untracked(p) /\ ~Untracked(p)')
                    => \E u \in Threads : /\ pc[u] = "add_io"
                                          /\ arg[u].op = "add"
                                          /\ SameOnPlatform(arg[u].path, p)
          /\ (pc[t] = "list" /\ pc'[t] = "list_ret")
                => \A p \in Paths :
                      Untracked(p) => \A k \in DOMAIN loc'[t].snap :
                                         ~SameOnPlatform(k, p)
          /\ (pc[t] \in {"act_lock", "dea_lock"} /\ pc'[t] # pc[t]
                  /\ Untracked(arg[t].path))
                => (pc'[t] = "idle" /\ ret'[t] = "NotFound" /\ files' = files)]_vars

\* removeFile(p) has succeeded and p is gone, while another file is tracked
C10_Witness ==
    \E t \in Threads :
        /\ pc[t] = "rem_bcast"
        /\ arg[t].op = "remove"
        /\ Untracked(arg[t].path)
        /\ files # EmptyMap

(***************************************************************************)
(* Properties of the tracked-file map under concurrent calls.              *)
(***************************************************************************)
\* C2: in every reachable state, whatever the interleaving of concurrent
\* addFile and removeFile calls, no two keys of the tracked-file map are
\* equal under pathsEqual (the same path, or on Windows case variants).
C2_OnePerCanonicalPath ==
    \A k1 \in DOMAIN files, k2 \in DOMAIN files :
        SameOnPlatform(k1, k2) => k1 = k2

\* on Windows an addFile was rejected while the concurrent addFile of a case
\* variant, which won the lock, is still in progress
C2_Witness ==
    \E t \in Threads, u \in Threads :
        /\ windows
        /\ pc[t] = "idle" /\ arg[t].op = "add" /\ ret[t] = "AlreadyTracked"
        /\ pc[u] \in {"info", "bfl_copy", "bfl_send"} /\ arg[u].op = "add"
        /\ arg[t].path # arg[u].path
        /\ SameButCase(arg[t].path, arg[u].path)
        /\ arg[u].path \in DOMAIN files

(***************************************************************************)
(* Properties of the event loop.                                           *)
(***************************************************************************)
\* the step in which the event loop takes a message off the broadcast channel
BroadcastProcessed == Len(broadcast') < Len(broadcast)

\* the queue of client c gets a message in this step
Enqueued(c) == Len(send'[c]) > Len(send[c])

\* the message the queue of client c gets in this step
NewMessage(c) == send'[c][Len(send'[c])]

\* C3: when the Hub processes a broadcast, every client whose queue is full
\* is removed from the client set and its queue is closed, and every other
\* registered client gets the message appended to its queue.
C3_BroadcastBackpressure ==
    [][BroadcastProcessed =>
         \A c \in clients :
            IF Len(send[c]) >= SendCap
            THEN /\ c \notin clients'
                 /\ closed'[c] = closed[c] + 1
                 /\ send'[c] = send[c]
            ELSE /\ c \in clients'
                 /\ closed'[c] = closed[c]
                 /\ send'[c] = Append(send[c], Head(broadcast))]_vars

\* a client with a full queue that never asked to leave is out and closed,
\* while another client is in and has the log delta at the end of its queue
C3_Witness ==
    \E a \in ClientIds, b \in clients :
        /\ a \notin clients
        /\ cl[a].rd = "run"
        /\ closed[a] = 1
        /\ Len(send[a]) = SendCap
        /\ send[b] # <<>>
        /\ send[b][Len(send[b])].type = "log"

\* C5: the first two messages placed on a connecting client's queue are the
\* file list and then the log replay: the client joins the set with an empty
\* queue, the loop then only moves through its log call, the "files" send
\* and the "logs" send, and until it is back at its select nothing else is
\* placed on any queue.
C5_BootstrapFirst ==
    [][\A c \in ClientIds :
          /\ (c \notin clients) => ~Enqueued(c)
          /\ (c \notin clients /\ c \in clients')
                => /\ send[c] = <<>>
                   /\ closed[c] = 0
                   /\ hub' = [pc |-> "reg_log", c |-> c]
          /\ (hub.pc = "reg_log")
                => /\ ~Enqueued(c)
                   /\ hub' = hub \/ hub' = [hub EXCEPT !.pc = "reg_files"]
          /\ (hub.pc = "reg_files")
                => /\ Enqueued(c) => (c = hub.c /\ NewMessage(c) = FilesMsg(files))
                   /\ \/ hub' = hub /\ ~Enqueued(hub.c)
                      \/ hub' = [hub EXCEPT !.pc = "reg_logs"] /\ Enqueued(hub.c)
          /\ (hub.pc = "reg_logs")
                => /\ Enqueued(c) => (c = hub.c /\ NewMessage(c) = LogsMsg(logs))
                   /\ \/ hub' = hub /\ ~Enqueued(hub.c)
                      \/ hub'.pc = "select" /\ Enqueued(hub.c)]_vars

\* a client that reads nothing has its bootstrap, a file list that is not
\* empty and the log replay, on its queue
C5_Witness ==
    \E c \in clients :
        /\ hub.pc = "select"
        /\ Len(send[c]) = 2
        /\ send[c][1].type = "files" /\ send[c][1].files # EmptyMap
        /\ send[c][2].type = "logs"

\* C6: processing a registration places messages only on the connecting
\* client's queue: from the receipt of the client until the loop is back at
\* its select, the queue of every other client gets nothing.
C6_BootstrapOnlyToNewClient ==
    [][/\ (hub.pc = "select" /\ hub'.pc = "reg_log") => send' = send
       /\ (hub.pc # "select")
             => \A c \in ClientIds \ {hub.c} :
                   /\ ~Enqueued(c)
                   /\ (c \in clients <=> c \in clients')
                   /\ closed'[c] = closed[c]]_vars

\* the bootstrap of one client is under way while another client, registered
\* before and reading, has nothing on its queue
C6_Witness ==
    \E b \in clients, c \in clients :
        /\ b # c
        /\ hub.pc = "reg_logs" /\ hub.c = c
        /\ Len(send[c]) = 1 /\ send[c][1].type = "files"
        /\ cl[b].wr = "run" /\ send[b] = <<>>

\* C4: the event loop never waits for a client to drain its queue: a
\* pending register, unregister or broadcast can always be taken, however
\* full the clients' queues are, and with a loop that keeps running every
\* submitted request is processed, even if no client ever reads.
C4_LoopNeverWaitsForClient ==
    /\ [](\A c \in ClientIds :
             /\ cl[c].hs = "registering" => ENABLED RunRegister1(c)
             /\ cl[c].rd = "unregistering" => ENABLED RunUnregister1(c))
    /\ [](broadcast # <<>> => ENABLED RunBroadcast)
    /\ \A c \in ClientIds : (cl[c].hs = "registering") ~> (cl[c].hs = "done")
    /\ \A c \in ClientIds : (cl[c].rd = "unregistering") ~> (cl[c].rd = "done")
    /\ ([]<><<RunBroadcast>>_vars \/ <>[](broadcast = <<>>))

\* a client that never read was evicted with a full queue, the other client
\* is registered, and nothing is left on the broadcast channel
C4_Witness ==
    \E a \in ClientIds, b \in clients :
        /\ a \notin clients
        /\ cl[a].rd = "run"
        /\ closed[a] = 1
        /\ Len(send[a]) = SendCap
        /\ \A i \in 1..Len(send[a]) : send[a][i].type = "current"
        /\ broadcast = <<>>

(***************************************************************************)
(* Properties of the watch callback.                                       *)
(***************************************************************************)
\* the callback of Watcher w is handling a render that failed
RenderFailed(w) == cb[w].pc \in {"se_lock", "se_send", "cb_logerr"}

\* at most a log entry is put on the broadcast channel in this step
OnlyLogBroadcast ==
    \/ broadcast' = broadcast
    \/ /\ Len(broadcast') = Len(broadcast) + 1
       /\ broadcast'[Len(broadcast')].type = "log"

\* the single-file Hub holds the HTML of a render that succeeded
HasGoodContent == current.HTML # NoHTML

\* C7: when a watch fires and the render fails, the callback leaves the
\* rendered content and the change time at their last good values, also in
\* what a newly connecting client is sent, and puts no update message on
\* the way to the clients.
C7_RenderFailureKeepsLastGood ==
    [][\A w \in WatcherIds :
          (RenderFailed(w) /\ cb'[w] # cb[w] /\ (mainpc = "none" \/ HasGoodContent))
              => (files' = files /\ current' = current /\ OnlyLogBroadcast)]_vars

(***************************************************************************)
(* Properties of Watcher.debounce.                                         *)
(***************************************************************************)
\* the write events so far came as one burst: each less than the quiescence
\* window after the one before
Burst == meter.tight /\ meter.events >= 1

\* the window has passed since the last event of the burst
Quiet == meter.gap = Debounce

\* C8: for N >= 1 write events on the watched file, each arriving less than
\* the 100 ms window after the one before, onChange is invoked exactly once
\* and only after the window has passed since the last event: until then
\* the timer is pending, at that moment it is due; the one invocation
\* renders once, and broadcasts one update for the render that succeeded.
C8_BurstFiresOnce ==
    Burst =>
        /\ meter.calls <= 1
        /\ meter.calls = 1 => Quiet
        /\ meter.calls = 0 => wst[MainWatcher].timer = Debounce - meter.gap
        /\ meter.updates <= meter.good
        /\ meter.good <= meter.renders
        /\ meter.renders <= meter.calls
        /\ (meter.calls = 1 /\ cb[MainWatcher].pc = "idle")
               => (meter.renders = 1 /\ meter.updates = meter.good)

\* a burst of MaxTime writes, the last of them renderable, has been answered
\* by one callback, one render and one update
C8_Witness ==
    /\ Burst
    /\ meter.events = MaxTime
    /\ meter.calls = 1
    /\ meter.renders = 1
    /\ meter.updates = 1
    /\ cb[MainWatcher].pc = "idle"

(***************************************************************************)
(* Properties of Hub.ActivateFile.                                         *)
(***************************************************************************)
\* the Watches installed for path p: the Watchers that receive its events
Installed(p) == Subscribed(FsKey(p))

\* goroutine t has served activate(p) for a tracked file
Activated(t) ==
    /\ pc[t] = "idle"
    /\ arg[t].op = "activate"
    /\ Matches(arg[t].path) # {}

\* C9: activate(p) on a tracked file succeeds, also when it follows another
\* activate(p); after it exactly one Watch is installed for p, the one in
\* Hub.watchers, and at no time are there two; so the file's changes never
\* produce more callbacks than there were writes, nor more update messages
\* than callbacks.
C9_ActivateTwiceOneWatch ==
    /\ \A p \in Paths : Cardinality(Installed(p)) <= 1
    /\ \A t \in Solo :
          Activated(t) =>
              /\ ret[t] = "ok"
              /\ \E k \in Matches(arg[t].path) :
                    /\ files[k].Active
                    /\ k \in DOMAIN watchers
                    /\ Installed(k) = {watchers[k]}
    /\ meter.calls <= now
    /\ meter.updates <= meter.calls

\* activate has succeeded twice in succession, and the one write that
\* followed has produced one callback and one update message
C9_Witness ==
    /\ \E t \in Solo : Activated(t) /\ ret[t] = "ok"
    /\ meter.prev = [op |-> "activate", ret |-> "ok"]
    /\ now = 1
    /\ meter.events = 1
    /\ meter.calls = 1
    /\ meter.updates = 1
    /\ \A w \in WatcherIds : cb[w].pc = "idle" /\ wst[w].timer = -1

(***************************************************************************)
(* Properties of the writer goroutine.                                     *)
(***************************************************************************)
\* sequence a is a prefix of sequence b
IsPrefix(a, b) == Len(a) <= Len(b) /\ a = SubSeq(b, 1, Len(a))

\* C11: what has been written to a client's conn is, in this order and with
\* nothing repeated or left out, the beginning of what the Hub has put on
\* that client's queue; as long as the writer goroutine runs, the rest is
\* what the queue still holds.
C11_WrittenInQueueOrder ==
    \A c \in ClientIds :
        /\ IsPrefix(meter.wire[c], meter.enq[c])
        /\ cl[c].wr = "run" => meter.wire[c] \o send[c] = meter.enq[c]

\* a client has been written three different messages and still has one queued
C11_Witness ==
    \E c \in ClientIds :
        /\ Len(meter.wire[c]) >= 3
        /\ \A i, j \in 1..Len(meter.wire[c]) :
               i # j => meter.wire[c][i] # meter.wire[c][j]
        /\ send[c] # <<>>
        /\ cl[c].wr = "run"

(***************************************************************************)
(* Properties of the unregister and broadcast cases of Hub.Run.            *)
(***************************************************************************)
\* the disconnect signal of client c is served in this step
Unregistered(c) == cl[c].rd = "unregistering" /\ cl'[c].rd = "done"

\* C12: a client's queue is never closed twice; once its disconnect signal
\* has been served the queue has been closed exactly once, and a closed
\* queue belongs to no client of the set; the signal of a client that is not
\* in the set (it was evicted) changes neither the set nor any queue and
\* closes nothing.
C12_QueueClosedOnce ==
    /\ [](\A c \in ClientIds :
             /\ closed[c] <= 1
             /\ cl[c].rd = "done" => closed[c] = 1
             /\ closed[c] = 1 => c \notin clients)
    /\ [][\A c \in ClientIds :
             (Unregistered(c) /\ c \notin clients)
                 => (clients' = clients /\ closed' = closed /\ send' = send
                     /\ crashed' = crashed)]_vars

\* the browser is still there, yet the reader has failed and its signal has
\* been served: the conn was closed by the writer, whose queue had been
\* closed by an eviction
C12_Witness ==
    \E c \in ClientIds :
        /\ cl[c].peer
        /\ cl[c].rd = "done"
        /\ closed[c] = 1
        /\ c \notin clients

(***************************************************************************)
(* Properties of the calls that fail.                                      *)
(***************************************************************************)
Errors == {"AlreadyTracked", "NotFound", "ReadError", "RenderError"}

\* where a call is before it has decided whether it fails
Undecided == {"add_lock", "add_io", "act_lock", "dea_lock", "rem_lock"}

\* goroutine t takes a step of a call that is still undecided afterwards, or
\* that returns an error with this step
TowardsError(t) ==
    /\ pc'[t] # pc[t]
    /\ pc[t] \in Undecided \cup {"idle"}
    /\ pc'[t] \in Undecided \/ ret'[t] \in Errors

\* C13: a call of addFile, activate, deactivate or removeFile that returns
\* AlreadyTracked, NotFound, ReadError or RenderError has, in all its steps
\* up to and including the return, left the tracked files, the watcher map,
\* the Watchers, the log, the broadcast channel and the clients' queues as
\* they were.
C13_FailedCallChangesNothing ==
    [][\A t \in Threads :
          TowardsError(t) =>
              /\ files' = files
              /\ watchers' = watchers
              /\ wst' = wst
              /\ logs' = logs
              /\ broadcast' = broadcast
              /\ send' = send]_vars

\* an addFile has failed on the initial render while another file is tracked
C13_Witness ==
    \E t \in Threads :
        /\ pc[t] = "idle"
        /\ arg[t].op = "add"
        /\ ret[t] = "RenderError"
        /\ files # EmptyMap
        /\ Untracked(arg[t].path)

(***************************************************************************)
(* Properties of Watcher.Close.                                            *)
(***************************************************************************)
\* the timer of Watcher w runs out in this step: onChange is invoked
Invoked(w) == cb[w].pc = "idle" /\ cb'[w].pc # "idle"

\* C14: once Close has returned for a Watcher, its callback is not invoked
\* any more, also when a debounce timer was pending or the loop was in its
\* delay after a remove event at the time of the Close.
C14_NoCallbackAfterClose ==
    [][\A w \in WatcherIds : Invoked(w) => wst[w].closes = 0]_vars

(***************************************************************************)
(* Properties of the watcher map under concurrent calls.                   *)
(***************************************************************************)
\* C15: under every interleaving of concurrent calls, h.watchers has a
\* Watcher for a path only if the path is tracked and its Active flag is
\* true.
C15_WatchOnlyForActiveFile ==
    \A k \in DOMAIN watchers : k \in DOMAIN files /\ files[k].Active

(***************************************************************************)
(* Properties of the Active flag.                                          *)
(***************************************************************************)
\* no call is under way, no Watcher loop has an event to receive or is in
\* its delay before a re-install
Settled ==
    /\ \A t \in Threads : pc[t] = "idle"
    /\ \A w \in WatcherIds : wst[w].loop # "sleep" /\ wst[w].evq = <<>>

\* C16: whenever no call, no event and no re-install is under way, a tracked file
\* whose Active flag is true has a live subscription installed for its path.
C16_ActiveMeansSubscribed ==
    Settled => \A k \in DOMAIN files : files[k].Active => Installed(k) # {}

(***************************************************************************)
(* Properties of Hub.DeactivateFile.                                       *)
(***************************************************************************)
\* goroutine t takes a step of a call of operation op
StepOf(t, op) == arg[t].op = op /\ pc[t] # "idle" /\ pc'[t] # pc[t]

\* this step puts exactly message m on the broadcast channel
Broadcasts(m) == broadcast' = Append(broadcast, m)

\* this step puts at most a log entry on the broadcast channel
NoListBroadcast ==
    \/ broadcast' = broadcast
    \/ \E t \in Threads : Broadcasts(LogMsg(LogEntry("info", InfoText(arg[t]))))

\* Watcher w has been closed, and is gone unless its timer is still pending
\* or its callback running
ClosedAndDiscarded(w) ==
    /\ \A k \in DOMAIN watchers' : watchers'[k] # w
    /\ \/ wst'[w] = NoWatcher
       \/ /\ wst'[w].closes = wst[w].closes + 1
          /\ wst'[w].loop \notin {"run", "sleep"}
          /\ wst'[w].fs # "on"

\* C17: deactivate(p) on an active tracked file clears the Active flag and
\* nothing else of the file, closes its Watcher and deletes it from the
\* map, and broadcasts the file list once, with its last step, when it
\* returns success; on an inactive file it returns success at once and
\* changes and broadcasts nothing.
C17_DeactivateStopsWatch ==
    [][\A t \in Solo :
          StepOf(t, "deactivate") =>
              CASE pc[t] = "dea_lock" /\ pc'[t] = "info" ->
                      \E k \in Matches(arg[t].path) :
                          /\ files[k].Active
                          /\ files' = [files EXCEPT ![k].Active = FALSE]
                          /\ k \notin DOMAIN watchers'
                          /\ k \in DOMAIN watchers => ClosedAndDiscarded(watchers[k])
                          /\ Installed(k)' = {}
                          /\ broadcast' = broadcast
                [] pc[t] = "dea_lock" /\ pc'[t] = "idle" ->
                      /\ ret'[t] \in {"ok", "NotFound"}
                      /\ ret'[t] = "ok" <=> Matches(arg[t].path) # {}
                      /\ UNCHANGED <<files, watchers, wst, broadcast, logs>>
                [] pc[t] = "bfl_send" ->
                      /\ pc'[t] = "idle"
                      /\ ret'[t] = "ok"
                      /\ Broadcasts(FilesMsg(loc[t].snap))
                      /\ \E k \in Matches(arg[t].path) : ~loc[t].snap[k].Active
                      /\ UNCHANGED <<files, watchers, wst>>
                [] OTHER ->
                      /\ pc'[t] # "idle"
                      /\ NoListBroadcast
                      /\ UNCHANGED <<files, watchers, wst>>]_vars

\* a file that activate had made active has been deactivated: the flag is
\* off, no Watcher is left in the map, and the list is on its way
C17_Witness ==
    \E t \in Solo :
        /\ pc[t] = "idle"
        /\ arg[t].op = "deactivate"
        /\ ret[t] = "ok"
        /\ meter.prev = [op |-> "activate", ret |-> "ok"]
        /\ \E k \in Matches(arg[t].path) :
              /\ ~files[k].Active
              /\ k \notin DOMAIN watchers
              /\ broadcast = <<FilesMsg(files)>>

(***************************************************************************)
(* Properties of Hub.RemoveFile.                                           *)
(***************************************************************************)
\* C18: removeFile(p) on a tracked file deletes the file from the map,
\* closes the Watcher it has and deletes it from the watcher map, and
\* broadcasts one "removed" message with the path under which the file was
\* tracked, with its last step, when it returns success; it broadcasts no
\* file list; for a path that is not tracked it returns NotFound.
C18_RemoveDeletesAndAnnounces ==
    [][\A t \in Solo :
          StepOf(t, "remove") =>
              CASE pc[t] = "rem_lock" /\ pc'[t] = "info" ->
                      \E k \in Matches(arg[t].path) :
                          /\ files' = MapDel(files, k)
                          /\ k \notin DOMAIN watchers'
                          /\ k \in DOMAIN watchers => ClosedAndDiscarded(watchers[k])
                          /\ Installed(k)' = {}
                          /\ loc'[t].key = k
                          /\ broadcast' = broadcast
                [] pc[t] = "rem_lock" /\ pc'[t] = "idle" ->
                      /\ ret'[t] = "NotFound"
                      /\ Matches(arg[t].path) = {}
                      /\ UNCHANGED <<files, watchers, wst, broadcast, logs>>
                [] pc[t] = "rem_bcast" ->
                      /\ pc'[t] = "idle"
                      /\ ret'[t] = "ok"
                      /\ Broadcasts(RemovedMsg(loc[t].key))
                      /\ PathsEqual(loc[t].key, arg[t].path)
                      /\ UNCHANGED <<files, watchers, wst>>
                [] OTHER ->
                      /\ pc'[t] # "idle"
                      /\ NoListBroadcast
                      /\ UNCHANGED <<files, watchers, wst>>]_vars

\* a tracked file has been removed: the file is gone, the watcher map has
\* no Watcher for it, and the removal message is on its way
C18_Witness ==
    \E t \in Solo :
        /\ pc[t] = "idle"
        /\ arg[t].op = "remove"
        /\ ret[t] = "ok"
        /\ Untracked(arg[t].path)
        /\ arg[t].path \notin DOMAIN watchers
        /\ broadcast = <<RemovedMsg(arg[t].path)>>

(***************************************************************************)
(* Properties of the callback's store and broadcast.                       *)
(***************************************************************************)
\* the callback of Watcher w takes a step
CallbackStep(w) == cb'[w].pc # cb[w].pc /\ cb[w].pc # "idle"

\* C19: a callback whose render succeeded first stores the rendered HTML
\* and the file's modification time in the tracked file, then logs, and
\* with its last step broadcasts one "update" message whose payload is the
\* tracked file as it is stored; none of its steps broadcasts a file list.
C19_StoreThenOneUpdate ==
    [][\A w \in OneFileWatchers :
          CallbackStep(w) =>
              LET path == wst[w].path
              IN  CASE cb[w].pc = "cb_lock" ->
                          UNCHANGED <<files, broadcast>>
                    [] cb[w].pc = "cb_stat" ->
                          /\ cb'[w].pc = "cb_info"
                          /\ files' = [files EXCEPT
                                          ![path].HTML = cb[w].html,
                                          ![path].LastChange = Stat(path).ModTime]
                          /\ files[path].Active
                          /\ broadcast' = broadcast
                    [] cb[w].pc = "cb_info" ->
                          /\ cb'[w].pc = "cb_bcast"
                          /\ files' = files
                          /\ Broadcasts(LogMsg(LogEntry("info", "File changed")))
                    [] cb[w].pc = "cb_bcast" ->
                          /\ cb'[w].pc = "idle"
                          /\ files' = files
                          /\ Broadcasts(UpdateMsg(files[path]))
                    [] OTHER ->
                          /\ files' = files
                          /\ \/ broadcast' = broadcast
                             \/ Broadcasts(LogMsg(LogEntry("error", "Error rendering")))]_vars

\* a write of the watched file has been rendered and stored, and the update
\* with the stored file is on its way
C19_Witness ==
    /\ \A w \in WatcherIds : cb[w].pc = "idle"
    /\ meter.updates = 1
    /\ OneFile \in DOMAIN files
    /\ files[OneFile].Active
    /\ files[OneFile].LastChange = now
    /\ now >= 1
    /\ broadcast = <<UpdateMsg(files[OneFile])>>

(***************************************************************************)
(* Properties of the callback's re-check.                                  *)
(***************************************************************************)
\* the file of Watcher w is not tracked, or not active
Gone(w) == wst[w].path \notin DOMAIN files \/ ~files[wst[w].path].Active

\* C20: a callback that starts when its file has been removed or
\* deactivated returns at once: it renders nothing, changes no tracked
\* file, logs nothing and broadcasts nothing; and whenever a callback
\* changes a tracked file, that file is its own, tracked and active in the
\* state in which the change is made.
C20_LateCallbackDiscarded ==
    [][\A w \in OneFileWatchers :
          CallbackStep(w) =>
              /\ (cb[w].pc = "cb_lock" /\ Gone(w)) =>
                    /\ cb'[w].pc = "idle"
                    /\ UNCHANGED <<files, broadcast, logs, mu, meter>>
              /\ files' # files =>
                    /\ ~Gone(w)
                    /\ DOMAIN files' = DOMAIN files
                    /\ \A k \in DOMAIN files : k # wst[w].path => files'[k] = files[k]]_vars

\* the timer of a Watcher ran out after its file was removed: the callback
\* was invoked and has returned without a render
C20_Witness ==
    /\ meter.calls = 1
    /\ meter.renders = 0
    /\ files = EmptyMap
    /\ \A w \in WatcherIds : cb[w].pc = "idle" /\ wst[w].timer = -1
    /\ \E t \in Solo : arg[t].op = "remove" /\ ret[t] = "ok" /\ pc[t] = "idle"

(***************************************************************************)
(* The Hub's lock and the file I/O of its operations.                      *)
(***************************************************************************)
\* the operation of t is between its h.mu.Lock() and its os.Stat and Render
AtFileIO(t) == pc[t] \in {"add_io", "act_io"}

\* C21: no operation holds the Hub's lock while it stats or renders a file, so
\* a GetFiles that has been called can take the lock while another operation
\* is at its stat and render.
C21_RenderNeverBlocksList ==
    \A t, u \in Threads :
        AtFileIO(t) /\ pc[u] = "list" => mu = "free" /\ ENABLED GetFiles(u)

(***************************************************************************)
(* Hub.GetFiles.                                                           *)
(***************************************************************************)
\* the caller of t holds the slice GetFiles gave it
HoldsList(t) == pc[t] = "list_ret" /\ pc'[t] = "list_ret"

Joins(c) == c \notin clients /\ c \in clients'

\* the event loop takes a message off the broadcast channel and every client
\* of the set gets it
C22_BroadcastToAllClients ==
    [][BroadcastProcessed =>
         \A c \in ClientIds :
            IF c \in clients
            THEN send'[c] = Append(send[c], Head(broadcast))
            ELSE send'[c] = send[c]]_vars

\* C22: the event loop handles one request per step.  The step that takes a
\* message off the broadcast channel appends it once to the queue of every
\* client that is in the set at that step and has room, and changes no other
\* queue; no client joins or leaves by request in that step.  A queue gets
\* a message in no other step but the one in which its client joins, so a
\* client that joins later never gets the message.
C22_BroadcastToCurrentClients ==
    [][/\ BroadcastProcessed =>
            /\ broadcast' = Tail(broadcast)
            /\ cl' = cl
            /\ clients' \subseteq clients
            /\ \A c \in ClientIds :
                  IF c \in clients /\ ~Full(c)
                  THEN send'[c] = Append(send[c], Head(broadcast))
                  ELSE send'[c] = send[c]
       /\ \A c \in ClientIds :
            /\ Joins(c) =>
                  /\ broadcast' = broadcast
                  /\ clients' = clients \cup {c}
                  /\ \A d \in ClientIds \ {c} : send'[d] = send[d]
            /\ Enqueued(c) /\ ~BroadcastProcessed => Joins(c)]_vars

\* both clients are in the set; one has the message of a broadcast behind
\* its first message, the other joined later and has only its first message
C22_Witness ==
    \E a, b \in clients :
        /\ Len(send[b]) = 2
        /\ send[b][1] # send[b][2]
        /\ send[a] = <<send[b][2]>>
        /\ broadcast = <<>>

(***************************************************************************)
(* Properties of a successful AddFileWithActive.                           *)
(***************************************************************************)
\* the step of goroutine t adds no file list to the broadcast channel
NoFilesMsg(t) ==
    \/ broadcast' = broadcast
    \/ Broadcasts(LogMsg(LogEntry("info", InfoText(arg[t]))))

\* C24: addFile(p, active) that gets past its checks stores one file under p,
\* with Active = active, the HTML of the render and the file's modification
\* time, and changes no other file; it creates and starts a Watcher for p
\* when active is true and none otherwise; it broadcasts one file list, with
\* its last step, and the list is the Hub's list with p in it.
C24_AddCreatesOneFile ==
    [][\A t \in Solo :
          StepOf(t, "add") =>
              LET path == arg[t].path
              IN  CASE pc[t] = "add_io" /\ pc'[t] # "idle" ->
                          /\ path \notin DOMAIN files
                          /\ DOMAIN files' = DOMAIN files \cup {path}
                          /\ \A k \in DOMAIN files : files'[k] = files[k]
                          /\ files'[path].Path = path
                          /\ files'[path].Active = arg[t].active
                          /\ files'[path].HTML = Render(path).html
                          /\ ~Render(path).err
                          /\ pc'[t] = "sw_lock" <=> arg[t].active
                          /\ UNCHANGED <<watchers, wst, broadcast>>
                    [] pc[t] = "sw_lock" ->
                          /\ path \notin DOMAIN watchers
                          /\ DOMAIN watchers' = DOMAIN watchers \cup {path}
                          /\ pc'[t] = "sw_watch"
                          /\ UNCHANGED <<files, broadcast>>
                    [] pc[t] = "sw_watch" ->
                          /\ Installed(path)' = {watchers[path]}
                          /\ UNCHANGED <<files, watchers, broadcast>>
                    [] pc[t] = "bfl_send" ->
                          /\ pc'[t] = "idle"
                          /\ ret'[t] = "ok"
                          /\ Broadcasts(FilesMsg(files))
                          /\ path \in DOMAIN files
                          /\ files[path].Active = arg[t].active
                          /\ path \in DOMAIN watchers <=> arg[t].active
                          /\ Installed(path) # {} <=> arg[t].active
                          /\ UNCHANGED <<files, watchers, wst>>
                    [] OTHER ->
                          /\ pc'[t] = "idle" => ret'[t] # "ok"
                          /\ NoFilesMsg(t)
                          /\ UNCHANGED <<files, watchers, wst>>]_vars

\* addFile(p, true) has returned success while another file is tracked and
\* not watched: p is tracked, active and watched, and the list is on its way
C24_Witness ==
    \E t \in Solo :
        /\ pc[t] = "idle" /\ arg[t].op = "add" /\ arg[t].active
        /\ ret[t] = "ok"
        /\ files[arg[t].path].Active
        /\ Installed(arg[t].path) # {}
        /\ \E k \in DOMAIN files : ~files[k].Active /\ Installed(k) = {}
        /\ broadcast = <<FilesMsg(files)>>

(***************************************************************************)
(* The fields of a tracked file that are set once.                         *)
(***************************************************************************)
\* C26: as long as a file stays in the map, its TrackTime and its Path are
\* the ones it was stored with, and the Path is the key it is stored under,
\* whatever activate, deactivate and the callback's re-renders do to it.
C26_TrackTimeAndPathFixed ==
    [][\A k \in DOMAIN files :
          /\ files[k].Path = k
          /\ k \in DOMAIN files' =>
                /\ files'[k].TrackTime = files[k].TrackTime
                /\ files'[k].Path = files[k].Path]_vars

\* a file registered before its last write has been activated, re-rendered
\* by the callback and deactivated again
C26_Witness ==
    /\ OneFile \in DOMAIN files
    /\ files[OneFile].TrackTime < files[OneFile].LastChange
    /\ files[OneFile].HTML = files[OneFile].LastChange
    /\ meter.updates > 0
    /\ ~files[OneFile].Active
    /\ \E t \in Solo : pc[t] = "idle" /\ arg[t].op = "deactivate" /\ ret[t] = "ok"

(***************************************************************************)
(* Properties of Hub.Close.                                                *)
(***************************************************************************)
\* C29: no Watcher is closed twice, whatever sequence of deactivate and
\* Hub.Close calls is served: close(w.done) never runs on a closed channel.
C29_WatcherClosedOnce ==
    /\ ~crashed
    /\ \A w \in WatcherIds : wst[w].closes <= 1

\* goroutine t has called Hub.Close and the call has returned
ShutDown(t) == pc[t] = "idle" /\ arg[t].op = "close" /\ ret[t] = "ok" /\ ~crashed

\* C25: when Hub.Close has returned, every Watcher that exists has been
\* closed: none has a subscription, no loop waits for events any more, and a
\* loop that was in its pause when it was closed returns at its next select.
C25_CloseStopsEveryWatch ==
    \A t \in Solo :
        ShutDown(t) =>
            /\ \A k \in FsKeys : Subscribed(k) = {}
            /\ \A w \in WatcherIds :
                  wst[w].used =>
                     /\ wst[w].closes >= 1
                     /\ wst[w].fs # "on"
                     /\ wst[w].evq = <<>>
                     /\ wst[w].loop = "run" => ENABLED LoopExit(w)

\* Hub.Close has returned with the file still active: its Watcher is in the
\* map, closed once, its subscription is gone and its loop has returned
C25_Witness ==
    \E t \in Solo :
        /\ ShutDown(t)
        /\ OneFile \in DOMAIN files /\ files[OneFile].Active
        /\ OneFile \in DOMAIN watchers
        /\ wst[watchers[OneFile]].closes = 1
        /\ wst[watchers[OneFile]].fs = "closed"
        /\ wst[watchers[OneFile]].loop = "exit"

(***************************************************************************)
(* Closed client queues.                                                   *)
(***************************************************************************)
\* the event loop has taken client c from the register channel
WasRegistered(c) == cl[c].hs = "done"

\* a queue is closed exactly when its client was registered and is out
ClosedIffOut ==
    \A c \in ClientIds : closed[c] > 0 <=> (WasRegistered(c) /\ c \notin clients)

\* C30: a client's queue is closed exactly when the client was registered
\* and is no longer in the client set, in every state, and no step puts a
\* message on a queue that is closed.
C30_NoSendOnClosedQueue ==
    /\ []ClosedIffOut
    /\ [][\A c \in ClientIds : Enqueued(c) => closed[c] = 0 /\ c \in clients']_vars

\* one client was evicted with a full queue and one left on its own: both
\* queues are closed once and the client set is empty
C30_Witness ==
    /\ clients = {}
    /\ \A c \in ClientIds : WasRegistered(c) /\ closed[c] = 1
    /\ \E a, b \in ClientIds :
          /\ cl[a].rd = "run" /\ Len(send[a]) = SendCap
          /\ cl[b].rd = "done" /\ Len(send[b]) < SendCap
    /\ broadcast = <<>>

(***************************************************************************)
(* The event loop as a sender on the channel it drains.                    *)
(***************************************************************************)
\* C28: the event loop is never stuck at a log call.  Nothing but the loop's
\* own select takes messages off the broadcast channel, so a loop that cannot
\* go on at its "Browser connected" or "Browser disconnected" call because
\* the channel is full stays there for ever.
C28_LoopNeverStuckLogging ==
    /\ hub.pc = "reg_log" => ENABLED RunRegisterLog
    /\ hub.pc = "unreg_log" => ENABLED RunUnregisterLog

(***************************************************************************)
(* The browser's file list against the Hub's.                              *)
(***************************************************************************)
\* every call has returned, no callback runs, the event loop is at its select,
\* and the broadcast channel and the queue of client c are empty
Drained(c) ==
    /\ \A t \in Threads : pc[t] = "idle"
    /\ \A w \in WatcherIds : cb[w].pc = "idle"
    /\ hub.pc = "select"
    /\ broadcast = <<>>
    /\ send[c] = <<>>

\* the same files with the same Active flags
SameList(view, fs) ==
    /\ DOMAIN view = DOMAIN fs
    /\ \A k \in DOMAIN fs : view[k].Active = fs[k].Active

\* C27: once everything is drained, the list a connected client has built
\* from the messages written to it is the Hub's list.
C27_ClientListConverges ==
    \A c \in clients :
        Drained(c) /\ cl[c].conn = "open" /\ cl[c].peer
            => SameList(BrowserFiles(meter.wire[c]), files)

(***************************************************************************)
(* The end of a connection.                                                *)
(***************************************************************************)
\* client c is out of the set, its queue is closed and its conn is closed
Released(c) ==
    /\ c \notin clients
    /\ closed[c] = 1
    /\ cl[c].conn = "closed"

\* C31: once the reader of a client has got its read error, the client is
\* eventually out of the client set with its queue closed and its conn
\* closed, and the reader goroutine has ended.
C31_DisconnectReleases ==
    \A c \in ClientIds :
        (cl[c].rd = "unregistering") ~> (cl[c].rd = "done" /\ Released(c))

\* the browser went away while it was registered; its reader has ended and
\* the client is released, with the writer still to notice
C31_Witness ==
    \E c \in ClientIds :
        /\ ~cl[c].peer
        /\ cl[c].rd = "done"
        /\ cl[c].wr = "run"
        /\ Released(c)

\* the writer of client c takes a message off the queue in this step
Dequeued(c) == Len(send'[c]) < Len(send[c])

\* C32: a writer whose write fails ends in that step and closes the conn; a
\* writer that has ended takes nothing more off the queue and its conn is
\* closed; and once a client's queue is closed, its writer and its reader
\* eventually have both ended and the conn is closed.
C32_ClosedQueueEndsBothLoops ==
    /\ [](\A c \in ClientIds : cl[c].wr = "done" => cl[c].conn = "closed")
    /\ [][\A c \in ClientIds :
             /\ cl[c].wr = "done" => cl'[c].wr = "done" /\ ~Dequeued(c)
             /\ Dequeued(c) /\ ~(cl[c].conn = "open" /\ cl[c].peer)
                   => cl'[c].wr = "done" /\ cl'[c].conn = "closed"]_vars
    /\ \A c \in ClientIds :
          (closed[c] > 0)
              ~> (cl[c].wr = "done" /\ cl[c].rd = "done" /\ cl[c].conn = "closed")

\* a browser that is still there and never asked to leave was evicted with a
\* full queue; its writer has written the queue out and ended, its reader
\* has ended, and the conn is closed
C32_Witness ==
    \E c \in ClientIds :
        /\ cl[c].peer
        /\ closed[c] = 1
        /\ send[c] = <<>>
        /\ cl[c].wr = "done" /\ cl[c].rd = "done" /\ cl[c].conn = "closed"

(***************************************************************************)
(* The loop's handling of a remove event.                                  *)
(***************************************************************************)
\* the loop ends its pause in this step
ReAdded(w) == wst[w].loop = "sleep" /\ wst'[w].loop = "run"

\* the editor writes the file, which exists, in this step
Wrote == now' > now /\ disk[OneFile].st # "missing"

\* the write of this step reaches the loop of Watcher w
Detected(w) == wst'[w].evq = Append(wst[w].evq, "write")

Takes(w, op) ==
    /\ wst[w].loop = "run"
    /\ wst[w].evq # <<>>
    /\ Head(wst[w].evq) = op
    /\ wst'[w].evq = Tail(wst[w].evq)

\* C34: an error reported by the notification mechanism does not end the
\* watch loop: receiving it leaves the loop running, the subscription and any
\* pending timer as they were, and a write event that the loop receives after
\* an error arms the debounce timer like any other.
C34_ErrorKeepsLoop ==
    /\ [][\A w \in WatcherIds :
            Takes(w, "error") =>
                /\ wst'[w].loop = "run"
                /\ wst'[w].fs = wst[w].fs
                /\ wst'[w].timer = wst[w].timer]_vars
    /\ [][\A w \in WatcherIds :
            ("error" \in meter.seen /\ Takes(w, "write")) =>
                (wst'[w].loop = "run" /\ wst'[w].timer = Debounce)]_vars

\* the loop received an error, then a write event, and the callback of that
\* write has run and stored the file
C34_Witness ==
    /\ "error" \in meter.before
    /\ meter.events = 1
    /\ meter.calls = 1
    /\ meter.updates = 1

(***************************************************************************)
(* The debounce timer is one timer.                                        *)
(***************************************************************************)

\* C35: every Watcher has at most one pending debounce timer, the one in
\* w.timer; an event that arms a timer while one is pending stops that one
\* first, so that one timer is pending afterwards, with the full delay.
C35_OnePendingTimer ==
    /\ [](\A w \in WatcherIds :
            /\ wst[w].timers \in {0, 1}
            /\ wst[w].timers = 1 <=> wst[w].timer >= 0)
    /\ [][\A w \in WatcherIds :
            (wst[w].timer >= 0 /\ Takes(w, "write")) =>
                (wst'[w].timers = 1 /\ wst'[w].timer = Debounce)]_vars

\* a second write event has come while the timer of the first was pending,
\* and one timer is pending
C35_Witness ==
    /\ meter.events = 2
    /\ meter.tight
    /\ meter.calls = 0
    /\ wst[MainWatcher].timers = 1
    /\ wst[MainWatcher].timer > 0

(***************************************************************************)
(* The order of registration and unregistration.                           *)
(***************************************************************************)

\* the step in which the event loop takes c from the unregister channel
Unregisters(c) == cl[c].rd = "unregistering" /\ cl'[c].rd = "done"

\* C36: the reader goroutine of a client, which is the only sender on the
\* unregister channel, exists only once the event loop has taken the client
\* from the register channel; so the loop adds a client to the set while
\* its reader has not started, and every unregister request it receives is
\* for a client whose registration it has processed.
C36_RegisterBeforeUnregister ==
    /\ [](\A c \in ClientIds : cl[c].rd # "none" => WasRegistered(c))
    /\ [][\A c \in ClientIds :
            /\ (c \in clients' \ clients) => cl[c].rd = "none"
            /\ Unregisters(c) => WasRegistered(c)]_vars

\* the unregister request of one client has been processed and took it out
\* of the set, and the request of the other is waiting at the channel
C36_Witness ==
    \E a, b \in ClientIds :
        /\ a # b
        /\ cl[a].rd = "done" /\ WasRegistered(a) /\ a \notin clients
        /\ cl[b].rd = "unregistering" /\ b \in clients

(***************************************************************************)
(* Concurrent callers of SetContent and SetError.                          *)
(***************************************************************************)

\* every call of SetContent and SetError has returned and the event loop has
\* taken every message from the broadcast channel
SetQuiet ==
    /\ \A t \in Threads : pc[t] = "idle"
    /\ \E t \in Threads : ret[t] = "ok"
    /\ broadcast = <<>>

\* C37: once the calls of SetContent and SetError have returned and the
\* broadcast channel is drained, the last message put on the queue of every
\* registered client is the Hub's stored current message.
C37_LastQueuedIsCurrent ==
    SetQuiet =>
        \A c \in clients :
            /\ meter.enq[c] # <<>>
            /\ meter.enq[c][Len(meter.enq[c])] = CurrentMsg(current)

(***************************************************************************)
(* The callback's os.Stat after the render.                                *)
(***************************************************************************)

\* the callback of w has rendered the file and the file cannot be stat'ed
StatFails(w) == cb[w].pc = "cb_stat" /\ Stat(wst[w].path).err

\* C38: a callback whose os.Stat fails after a successful render ends like
\* any other: the process has not crashed, and the callback does not stay
\* where it is with the Hub lock held and the new HTML stored under the old
\* LastChange.
C38_StatFailureSurvived ==
    \A w \in WatcherIds :
        StatFails(w) =>
            /\ ~crashed
            /\ files[wst[w].path].HTML # cb[w].html \/ mu = "free"

(***************************************************************************)
(* Events that are neither writes nor removals.                            *)
(***************************************************************************)

\* the step in which the loop of w receives an event of another class
TakesOther(w) ==
    /\ wst[w].loop = "run"
    /\ wst[w].evq # <<>>
    /\ Head(wst[w].evq) \notin {"write", "remove", "error"}
    /\ wst'[w].evq = Tail(wst[w].evq)

\* C39: an event that is neither a write nor a removal arms no timer and
\* starts no callback: the step that receives it leaves the timer and the
\* callback as they were, and as long as no write event has been received
\* no timer is pending and onChange has not been called.
C39_OtherEventsIgnored ==
    /\ [][\A w \in WatcherIds :
            TakesOther(w) =>
                /\ wst'[w].timer = wst[w].timer
                /\ wst'[w].timers = wst[w].timers
                /\ cb' = cb]_vars
    /\ [](meter.events = 0 =>
            /\ meter.calls = 0
            /\ \A w \in WatcherIds : wst[w].timer = -1 /\ cb[w].pc = "idle")

\* the loop has received a change of mode and a rename and no write: no
\* timer is pending and nothing is left in the queue
C39_Witness ==
    /\ {"chmod", "rename"} \subseteq meter.seen
    /\ meter.events = 0
    /\ meter.calls = 0
    /\ wst[MainWatcher].loop = "run"
    /\ wst[MainWatcher].evq = <<>>
    /\ wst[MainWatcher].timer = -1

====
